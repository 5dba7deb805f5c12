---------------------------- MODULE IngestProofs ----------------------------
(***************************************************************************)
(* Proofs about Ingest, for every chain of launches and every value of the *)
(* other constants.                                                        *)
(***************************************************************************)
EXTENDS Ingest, TLAPS, WellFoundedInduction, SequenceTheorems

-----------------------------------------------------------------------------
(* The inductive invariant.                                                *)

Hand(r) == r.todo \cup r.priced \cup r.naming
BackfillHand == Hand(pons["backfill"])
LiveHand == Hand(pons["live"])
SlowHand == slow.todo \cup slow.looking \cup slow.naming
Followed == young \cup QueueSet

Done == {t \in Tokens : Accounted(t)}

(* Kept survives a crash: what it rests on is in a file, or is history.    *)
Kept == {t \in Tokens : \/ status[t] \in Labels
                        \/ t \in saved.rejected \cup dropped \cup lost \cup abandoned}

FilesInv ==
  /\ saved.rejected \subseteq rejected
  /\ quotes \subseteq dropped
  /\ Oldest - 1 <= saved.backfill /\ saved.backfill < Edge
  /\ Oldest - 1 <= saved.slow /\ saved.slow < Edge
  /\ Edge - 1 <= saved.live /\ saved.live <= scannedTo
  /\ \A l \in PastCurves \cup PastOthers \cup PastLive : l.token \in Kept

(* What a loop has in hand was launched where that loop looks, and what it *)
(* has put down is done.                                                   *)
BackfillInv ==
  /\ pons["backfill"].pc = "idle" => BackfillHand = {}
  /\ pons["backfill"].pc = "finish" => pons["backfill"].todo = {}
  /\ \A t \in BackfillHand : \E l \in Launch : l.token = t /\ l.curve /\ l.block < Edge
  /\ pons["backfill"].pc # "idle" =>
       \A l \in Launch : /\ l.curve /\ l.token \in Sampled
                         /\ BackfillLow <= l.block /\ l.block <= saved.backfill
                         => l.token \in Done \cup BackfillHand

SlowInv ==
  /\ slow.pc = "idle" => SlowHand = {} /\ slow.job = "none"
  /\ slow.pc # "idle" => slow.job \in {"history", "queue"}
  /\ slow.job = "history" =>
       /\ \A t \in SlowHand : \E l \in Launch : l.token = t /\ l.block < Edge
       /\ \A l \in Launch : /\ ~HasCurve(l.token) /\ l.token \in Sampled
                            /\ SlowLow <= l.block /\ l.block <= saved.slow
                            => l.token \in Done \cup SlowHand
  /\ slow.job = "queue" =>
       /\ slow.size <= Len(slowLive)
       /\ \A t \in SlowHand : \E i \in 1..slow.size : slowLive[i].token = t
       /\ \A i \in 1..slow.size : slowLive[i].token \in Done \cup SlowHand

(* Candidates are followed from a first pool that liveFrom has not passed, *)
(* each token by one young candidate at most, and a young curve by no      *)
(* queued one.                                                             *)
FollowInv ==
  /\ \A l \in Launch : Edge <= l.block /\ l.block <= scannedTo =>
       l.token \in Done \/ \E c \in Followed : c.token = l.token /\ c.first <= l.block
  /\ \A c \in Followed : /\ saved.live < c.first /\ c.first <= scannedTo
                         /\ \E l \in Launch : l.token = c.token /\ l.block = c.first
  /\ \A c \in young : c.curve => \E l \in Launch : l.token = c.token /\ l.curve /\ Edge <= l.block
  /\ \A c, d \in young : c.token = d.token => c = d
  /\ \A c \in QueueSet : ~c.curve
  /\ \A c \in young, d \in QueueSet : c.curve => c.token # d.token

LiveInv ==
  /\ pons["live"].pc = "idle" => LiveHand = {}
  /\ pons["live"].pc = "finish" => pons["live"].todo = {}
  /\ live.pc = "label" <=> pons["live"].pc # "idle"
  /\ live.matured \subseteq young
  /\ \A t \in LiveHand : \E c \in live.matured : c.curve /\ c.token = t
  /\ live.pc = "label" => \A c \in live.matured : c.curve => c.token \in Done \cup LiveHand
  /\ live.naming # {} => live.pc = "watch"
  /\ \A t \in live.naming : status[t] \notin Labels /\ \E c \in young : c.curve /\ c.token = t

IInv == TypeOK /\ FilesInv /\ BackfillInv /\ SlowInv /\ FollowInv /\ LiveInv

-----------------------------------------------------------------------------
(* LeastOf is the minimum of any set of naturals that has a member.        *)
LEMMA LeastOfNat ==
  ASSUME NEW S \in SUBSET Nat, S # {}
  PROVE  LeastOf(S) \in S /\ \A y \in S : LeastOf(S) <= y
<1> DEFINE R == OpToRel(<, Nat)
<1>0. IsWellFoundedOn(R, Nat)
  BY NatLessThanWellFounded
<1> HIDE DEF R
<1>1. PICK x \in S : \A y \in S : ~(<<y, x>> \in R)
  BY <1>0, WFMin
<1>2. ASSUME NEW y \in S
      PROVE  x <= y
  <2>1. R = {ss \in Nat \X Nat : ss[1] < ss[2]}
    BY DEF R, OpToRel
  <2>2. <<y, x>> \in Nat \X Nat /\ <<y, x>> \notin R
    BY <1>1
  <2>3. QED
    BY <2>1, <2>2
<1>3. QED
  BY <1>2 DEF LeastOf

(* What group() returns: one candidate per token of the range, known quote *)
(* assets aside, carrying the block of a launch no later than any other.   *)
LEMMA GroupFacts ==
  ASSUME NEW lo \in Int, NEW hi \in Int
  PROVE  /\ Group(lo, hi) \subseteq Candidate
         /\ \A l \in Launch : lo <= l.block /\ l.block <= hi =>
              \/ l.token \in quotes
              \/ \E c \in Group(lo, hi) : c.token = l.token /\ c.first <= l.block
         /\ \A c \in Group(lo, hi) :
              /\ lo <= c.first /\ c.first <= hi
              /\ \E l \in Launch : l.token = c.token /\ l.block = c.first
              /\ c.curve => \E l \in Launch : l.token = c.token /\ l.curve /\ lo <= l.block /\ l.block <= hi
              /\ \A l \in Launch : l.token = c.token /\ l.curve /\ lo <= l.block /\ l.block <= hi => c.curve
         /\ \A c, d \in Group(lo, hi) : c.token = d.token => c = d
<1> DEFINE At(t) == {l.block : l \in {k \in InRange(lo, hi) : k.token = t}}
           C(t) == [token |-> t, first |-> LeastOf(At(t)),
                    curve |-> \E l \in InRange(lo, hi) : l.token = t /\ l.curve]
           Ts == {l.token : l \in InRange(lo, hi)}
<1>1. Group(lo, hi) = {C(t) : t \in Ts \ quotes}
  BY DEF Group
<1>2. \A l \in Launch : l.block \in Nat /\ l.token \in Tokens
  BY IngestAssumption DEF Tokens
<1>3. ASSUME NEW t \in Ts
      PROVE  LeastOf(At(t)) \in At(t) /\ \A y \in At(t) : LeastOf(At(t)) <= y
  <2>1. At(t) \in SUBSET Nat /\ At(t) # {}
    BY <1>2 DEF InRange
  <2>2. QED
    BY <2>1, LeastOfNat
<1>4. ASSUME NEW t \in Ts
      PROVE  /\ C(t) \in Candidate /\ C(t).token = t
             /\ lo <= C(t).first /\ C(t).first <= hi
             /\ \E l \in Launch : l.token = t /\ l.block = C(t).first
             /\ C(t).curve <=> \E l \in InRange(lo, hi) : l.token = t /\ l.curve
  <2>1. t \in Tokens
    BY <1>2 DEF InRange
  <2>2. PICK l \in InRange(lo, hi) : l.token = t /\ l.block = LeastOf(At(t))
    BY <1>3
  <2>3. l \in Launch /\ lo <= l.block /\ l.block <= hi
    BY <2>2 DEF InRange
  <2>4. LeastOf(At(t)) \in Blocks
    BY <2>2, <2>3 DEF Blocks
  <2>5. QED
    BY <2>1, <2>2, <2>3, <2>4 DEF Candidate
<1> HIDE DEF C
<1>5. Group(lo, hi) \subseteq Candidate
  BY <1>1, <1>4
<1>6. ASSUME NEW l \in Launch, lo <= l.block, l.block <= hi, l.token \notin quotes
      PROVE  \E c \in Group(lo, hi) : c.token = l.token /\ c.first <= l.block
  <2>1. l \in InRange(lo, hi) /\ l.token \in Ts
    BY <1>6 DEF InRange
  <2>2. C(l.token) \in Group(lo, hi)
    BY <1>1, <1>6, <2>1
  <2>3. l.block \in At(l.token)
    BY <2>1
  <2>4. C(l.token).token = l.token /\ C(l.token).first <= l.block
    BY <1>3, <2>1, <2>3 DEF C
  <2>5. QED
    BY <2>2, <2>4
<1>7. ASSUME NEW c \in Group(lo, hi)
      PROVE  /\ lo <= c.first /\ c.first <= hi
             /\ \E l \in Launch : l.token = c.token /\ l.block = c.first
             /\ c.curve => \E l \in Launch : l.token = c.token /\ l.curve /\ lo <= l.block /\ l.block <= hi
             /\ \A l \in Launch : l.token = c.token /\ l.curve /\ lo <= l.block /\ l.block <= hi => c.curve
  <2>1. PICK t \in Ts : c = C(t)
    BY <1>1
  <2>2. QED
    BY <2>1, <1>4 DEF InRange
<1>8. \A c, d \in Group(lo, hi) : c.token = d.token => c = d
  BY <1>1, <1>4
<1>9. QED
  BY <1>5, <1>6, <1>7, <1>8

-----------------------------------------------------------------------------
(* Type correctness.                                                       *)

LEMMA ConstantTypes ==
  /\ Edge \in Nat /\ Oldest \in Nat /\ Oldest < Edge /\ Window \in Nat /\ Grace \in Nat
  /\ Chunk \in Nat /\ Chunk > 0 /\ SlowBatch \in Nat /\ SlowBatch > 0 /\ MaturedPerTick \in Nat
BY IngestAssumption

LEMMA TokensAndBlocks ==
  /\ \A l \in Launch : /\ l.token \in Tokens /\ l.block \in Blocks /\ l.block \in Nat
                       /\ l.curve \in BOOLEAN
  /\ Blocks \subseteq Nat
BY IngestAssumption DEF Tokens, Blocks

LEMMA OpenFacts ==
  ASSUME NEW cs \in SUBSET Candidate
  PROVE  TokensOf(Open(cs)) \subseteq Tokens
BY DEF TokensOf, Open, Candidate

LEMMA DropFacts ==
  ASSUME TypeOK, NEW t \in Tokens, Drop(t)
  PROVE  /\ status' \in [Tokens -> Status]
         /\ \A u \in Tokens : status[u] \in Labels => status'[u] = status[u]
         /\ \A u \in Tokens : status'[u] \in Labels => status[u] \in Labels
BY DEF TypeOK, Drop, Status, Labels

LEMMA QueueType ==
  ASSUME TypeOK
  PROVE  /\ Len(slowLive) \in Nat /\ DOMAIN slowLive = 1..Len(slowLive)
         /\ \A i \in 1..Len(slowLive) : slowLive[i] \in Candidate
         /\ QueueSet \subseteq Candidate
BY LenProperties, ElementOfSeq DEF TypeOK, QueueSet

PonsRecord == [pc : {"idle", "judge", "finish"}, todo : SUBSET Tokens,
               priced : SUBSET Tokens, naming : SUBSET Tokens]

LEMMA InitType == Init => TypeOK
<1> SUFFICES ASSUME Init
             PROVE  TypeOK
  OBVIOUS
<1>1. clock \in Nat /\ scannedTo \in Int
  BY ConstantTypes DEF Init
<1>2. status \in [Tokens -> Status] /\ stored \in [Tokens -> Status]
  BY DEF Init, Status
<1>3. pons \in [PonsLoops -> PonsRecord]
  BY DEF Init, Idle, PonsRecord
<1>4. slow \in [pc : {"idle", "dex"}, job : {"none", "history", "queue"}, todo : SUBSET Tokens,
               looking : SUBSET Tokens, naming : SUBSET Tokens, size : Nat]
  BY DEF Init, SlowIdle
<1>5. live \in [pc : {"idle", "scanned", "label", "trades", "watch"}, now : Nat,
               matured : SUBSET Candidate, naming : SUBSET Tokens]
  BY DEF Init, LiveIdle
<1>6. saved \in [backfill : Int, slow : Int, live : Int, rejected : SUBSET Tokens]
  BY ConstantTypes DEF Init
<1>7. slowLive \in Seq(Candidate)
  BY DEF Init
<1>8. QED
  BY <1>1, <1>2, <1>3, <1>4, <1>5, <1>6, <1>7 DEF Init, TypeOK, PonsRecord

(* The shape every step of resolvePons gives `pons`.                       *)
LEMMA PonsType ==
  ASSUME TypeOK, NEW p \in PonsLoops, NEW r \in PonsRecord
  PROVE  [pons EXCEPT ![p] = r] \in [PonsLoops -> PonsRecord]
BY DEF TypeOK, PonsRecord

LEMMA PonsStepType ==
  ASSUME TypeOK, NEW p \in PonsLoops, PonsStep(p)
  PROVE  TypeOK'
<1> DEFINE r == pons[p]
<1>0. r \in PonsRecord /\ pons \in [PonsLoops -> PonsRecord]
  BY DEF TypeOK, PonsRecord
<1>1. ASSUME NEW t \in Tokens, PonsUntraded(p, t)
      PROVE  TypeOK'
  <2>1. pons' = [pons EXCEPT ![p] = [r EXCEPT !.todo = @ \ {t}]]
    BY <1>1, <1>0 DEF PonsUntraded
  <2>2. pons' \in [PonsLoops -> PonsRecord]
    BY <2>1, <1>0 DEF PonsRecord
  <2>3. QED
    BY <1>1, <2>2, DropFacts DEF TypeOK, PonsUntraded, PonsRecord, window, files, world, budget
<1>2. ASSUME NEW t \in Tokens, PonsPriced(p, t)
      PROVE  TypeOK'
  <2>1. pons' = [pons EXCEPT ![p] = [r EXCEPT !.todo = @ \ {t}, !.priced = @ \cup {t}]]
    BY <1>2, <1>0 DEF PonsPriced
  <2>2. pons' \in [PonsLoops -> PonsRecord]
    BY <2>1, <1>0 DEF PonsRecord
  <2>3. QED
    BY <1>2, <2>2 DEF TypeOK, PonsPriced, PonsRecord, memory, window, files, world, budget, history
<1>3. ASSUME NEW t \in Tokens, PonsBelow(p, t)
      PROVE  TypeOK'
  <2>1. pons' = [pons EXCEPT ![p] = [r EXCEPT !.priced = @ \ {t}]]
    BY <1>3, <1>0 DEF PonsBelow
  <2>2. pons' \in [PonsLoops -> PonsRecord]
    BY <2>1, <1>0 DEF PonsRecord
  <2>3. QED
    BY <1>3, <2>2, DropFacts DEF TypeOK, PonsBelow, PonsRecord, window, files, world, budget, history
<1>4. ASSUME NEW t \in Tokens, PonsName(p, t)
      PROVE  TypeOK'
  <2>1. pons' = [pons EXCEPT ![p] = [r EXCEPT !.priced = @ \ {t}, !.naming = {t}]]
    BY <1>4, <1>0 DEF PonsName
  <2>2. pons' \in [PonsLoops -> PonsRecord]
    BY <2>1, <1>0 DEF PonsRecord
  <2>3. QED
    BY <1>4, <2>2 DEF TypeOK, PonsName, PonsRecord, memory, window, files, world, budget, history
<1>5. ASSUME NEW t \in Tokens, PonsLabel(p, t)
      PROVE  TypeOK'
  <2>1. pons' = [pons EXCEPT ![p] = [r EXCEPT !.naming = @ \ {t}]]
    BY <1>5, <1>0 DEF PonsLabel
  <2>2. pons' \in [PonsLoops -> PonsRecord]
    BY <2>1, <1>0 DEF PonsRecord
  <2>3. status' \in [Tokens -> Status]
    BY <1>5 DEF TypeOK, PonsLabel, Status
  <2>4. QED
    BY <1>5, <2>2, <2>3 DEF TypeOK, PonsLabel, PonsRecord, window, files, world, budget, history
<1>6. CASE PonsAllPriced(p)
  <2>1. pons' = [pons EXCEPT ![p] = [r EXCEPT !.pc = "finish"]]
    BY <1>6, <1>0 DEF PonsAllPriced
  <2>2. pons' \in [PonsLoops -> PonsRecord]
    BY <2>1, <1>0 DEF PonsRecord
  <2>3. QED
    BY <1>6, <2>2 DEF TypeOK, PonsAllPriced, PonsRecord, memory, window, files, world, budget, history
<1>7. QED
  BY <1>1, <1>2, <1>3, <1>4, <1>5, <1>6 DEF PonsStep

LEMMA PonsOpenType ==
  ASSUME TypeOK, NEW p \in PonsLoops, NEW cs \in SUBSET Candidate, PonsOpen(p, cs)
  PROVE  pons' \in [PonsLoops -> PonsRecord]
<1>1. TokensOf(Open({c \in cs : c.curve})) \subseteq Tokens
  BY OpenFacts
<1>2. [Idle EXCEPT !.pc = "judge", !.todo = TokensOf(Open({c \in cs : c.curve}))] \in PonsRecord
  BY <1>1 DEF Idle, PonsRecord
<1>3. QED
  BY <1>2, PonsType DEF PonsOpen

LEMMA ChunkTypes ==
  ASSUME TypeOK
  PROVE  /\ BackfillLow \in Int /\ Oldest <= BackfillLow /\ saved.backfill - Chunk + 1 <= BackfillLow
         /\ SlowLow \in Int /\ Oldest <= SlowLow /\ saved.slow - Chunk + 1 <= SlowLow
         /\ saved.backfill > Oldest => BackfillLow <= saved.backfill
         /\ saved.slow > Oldest => SlowLow <= saved.slow
BY ConstantTypes, SMTT(30) DEF TypeOK, BackfillLow, SlowLow, Higher

SavedRecord == [backfill : Int, slow : Int, live : Int, rejected : SUBSET Tokens]

LEMMA SaveType ==
  ASSUME TypeOK, NEW cursor \in {"backfill", "slow", "live"}, NEW v \in Int, Save(cursor, v)
  PROVE  saved' \in SavedRecord
<1>1. saved \in SavedRecord /\ rejected \in SUBSET Tokens
  BY DEF TypeOK, SavedRecord
<1>2. QED
  BY <1>1 DEF Save, SavedRecord

LEMMA BackfillType ==
  ASSUME TypeOK, BackfillStart \/ BackfillDone \/ BackfillFail
  PROVE  TypeOK'
<1> USE DEF PonsLoops
<1>1. CASE BackfillStart
  <2>1. {c \in Group(BackfillLow, saved.backfill) : c.token \in Sampled} \in SUBSET Candidate
    BY GroupFacts, ChunkTypes DEF TypeOK
  <2>2. pons' \in [PonsLoops -> PonsRecord]
    BY <1>1, <2>1, PonsOpenType DEF BackfillStart
  <2>3. QED
    BY <1>1, <2>2 DEF BackfillStart, TypeOK, PonsRecord, memory, window, files, world, budget, history
<1>2. CASE BackfillDone
  <2>1. pons' \in [PonsLoops -> PonsRecord]
    BY <1>2, PonsType DEF BackfillDone, PonsReturns, Idle, PonsRecord
  <2>2. abandoned' \subseteq Tokens
    BY <1>2 DEF BackfillDone, PonsReturns, TypeOK
  <2>3. saved' \in [backfill : Int, slow : Int, live : Int, rejected : SUBSET Tokens]
    BY <1>2, ChunkTypes, SaveType DEF BackfillDone, SavedRecord
  <2>4. QED
    BY <1>2, <2>1, <2>2, <2>3 DEF BackfillDone, TypeOK, PonsRecord, memory, window, world, budget
<1>3. CASE BackfillFail
  <2>1. pons' \in [PonsLoops -> PonsRecord]
    BY <1>3, PonsType DEF BackfillFail, Idle, PonsRecord
  <2>2. QED
    BY <1>3, <2>1 DEF BackfillFail, TypeOK, PonsRecord, memory, window, files, world, history
<1>4. QED
  BY <1>1, <1>2, <1>3

SlowRecord == [pc : {"idle", "dex"}, job : {"none", "history", "queue"}, todo : SUBSET Tokens,
               looking : SUBSET Tokens, naming : SUBSET Tokens, size : Nat]

LEMMA DexOpenType ==
  ASSUME NEW cs \in SUBSET Candidate, NEW job \in {"history", "queue"}, NEW n \in Nat,
         DexOpen(job, cs, n)
  PROVE  slow' \in SlowRecord
<1>1. TokensOf(Open({c \in cs : ~c.curve})) \subseteq Tokens
  BY OpenFacts
<1>2. QED
  BY <1>1 DEF DexOpen, SlowIdle, SlowRecord

LEMMA DexStepType ==
  ASSUME TypeOK, DexStep
  PROVE  TypeOK'
<1> USE DEF SlowRecord
<1>0. slow \in SlowRecord
  BY DEF TypeOK
<1>1. ASSUME NEW t \in Tokens, DexOlder(t)
      PROVE  TypeOK'
  <2>1. slow' \in SlowRecord
    BY <1>0, <1>1 DEF DexOlder
  <2>2. QED
    BY <1>1, <2>1, DropFacts DEF DexOlder, TypeOK, window, files, world, budget
<1>2. ASSUME NEW t \in Tokens, DexUnlisted(t)
      PROVE  TypeOK'
  <2>1. slow' \in SlowRecord
    BY <1>0, <1>2 DEF DexUnlisted
  <2>2. QED
    BY <1>2, <2>1, DropFacts DEF DexUnlisted, TypeOK, window, files, world, budget
<1>3. ASSUME NEW t \in Tokens, DexLookup(t)
      PROVE  TypeOK'
  <2>1. slow' \in SlowRecord
    BY <1>0, <1>3 DEF DexLookup
  <2>2. QED
    BY <1>3, <2>1 DEF DexLookup, TypeOK, memory, window, files, world, budget, history
<1>4. ASSUME NEW t \in Tokens, DexUntraded(t)
      PROVE  TypeOK'
  <2>1. slow' \in SlowRecord
    BY <1>0, <1>4 DEF DexUntraded
  <2>2. QED
    BY <1>4, <2>1, DropFacts DEF DexUntraded, TypeOK, window, files, world, budget
<1>5. ASSUME NEW t \in Tokens, DexBelow(t)
      PROVE  TypeOK'
  <2>1. slow' \in SlowRecord
    BY <1>0, <1>5 DEF DexBelow
  <2>2. QED
    BY <1>5, <2>1, DropFacts DEF DexBelow, TypeOK, window, files, world, budget, history
<1>6. ASSUME NEW t \in Tokens, DexName(t)
      PROVE  TypeOK'
  <2>1. slow' \in SlowRecord
    BY <1>0, <1>6 DEF DexName
  <2>2. QED
    BY <1>6, <2>1 DEF DexName, TypeOK, memory, window, files, world, budget, history
<1>7. ASSUME NEW t \in Tokens, DexLabel(t)
      PROVE  TypeOK'
  <2>1. slow' \in SlowRecord
    BY <1>0, <1>7 DEF DexLabel
  <2>2. status' \in [Tokens -> Status]
    BY <1>7 DEF DexLabel, TypeOK, Status
  <2>3. QED
    BY <1>7, <2>1, <2>2 DEF DexLabel, TypeOK, window, files, world, budget, history
<1>8. QED
  BY <1>1, <1>2, <1>3, <1>4, <1>5, <1>6, <1>7 DEF DexStep

LEMMA SlowType ==
  ASSUME TypeOK, SlowStart \/ QueueStart \/ SlowDone \/ QueueDone \/ SlowFail
  PROVE  TypeOK'
<1>0. SlowIdle \in SlowRecord
  BY DEF SlowIdle, SlowRecord
<1>1. CASE SlowStart
  <2>1. {c \in Group(SlowLow, saved.slow) : c.token \in Sampled} \in SUBSET Candidate
    BY GroupFacts, ChunkTypes DEF TypeOK
  <2>2. slow' \in SlowRecord
    BY <1>1, <2>1, DexOpenType DEF SlowStart
  <2>3. QED
    BY <1>1, <2>2 DEF SlowStart, TypeOK, SlowRecord, memory, window, files, world, budget, history
<1>2. CASE QueueStart
  <2> DEFINE n == Lower(SlowBatch, Len(slowLive))
  <2>1. n \in Nat /\ n <= Len(slowLive)
    BY QueueType, ConstantTypes DEF Lower
  <2>2. {slowLive[i] : i \in 1..n} \in SUBSET Candidate
    BY <2>1, QueueType
  <2>3. DexOpen("queue", {slowLive[i] : i \in 1..n}, n)
    BY <1>2 DEF QueueStart
  <2> HIDE DEF n
  <2>4. slow' \in SlowRecord
    BY <2>1, <2>2, <2>3, DexOpenType
  <2>5. QED
    BY <1>2, <2>4 DEF QueueStart, TypeOK, SlowRecord, memory, window, files, world, budget, history
<1>3. CASE SlowDone
  <2>1. abandoned' \subseteq Tokens /\ slow' \in SlowRecord
    BY <1>0, <1>3 DEF SlowDone, DexReturns, TypeOK
  <2>2. saved' \in [backfill : Int, slow : Int, live : Int, rejected : SUBSET Tokens]
    BY <1>3, ChunkTypes, SaveType DEF SlowDone, SavedRecord
  <2>3. QED
    BY <1>3, <2>1, <2>2 DEF SlowDone, TypeOK, SlowRecord, memory, window, world, budget
<1>4. CASE QueueDone
  <2>1. abandoned' \subseteq Tokens /\ slow' \in SlowRecord
    BY <1>0, <1>4 DEF QueueDone, DexReturns, TypeOK
  <2>2. slow.size + 1 \in Int /\ Len(slowLive) \in Int
    BY QueueType DEF TypeOK
  <2>3. \A i \in (slow.size + 1)..Len(slowLive) : slowLive[i] \in Candidate
    BY QueueType DEF TypeOK
  <2>4. slowLive' \in Seq(Candidate)
    BY <1>4, <2>2, <2>3, SubSeqProperties DEF QueueDone, Spliced
  <2>5. QED
    BY <1>4, <2>1, <2>4 DEF QueueDone, TypeOK, SlowRecord, memory, files, world, budget
<1>5. CASE SlowFail
  BY <1>0, <1>5 DEF SlowFail, TypeOK, SlowRecord, memory, window, files, world, history
<1>6. QED
  BY <1>1, <1>2, <1>3, <1>4, <1>5

LiveRecord == [pc : {"idle", "scanned", "label", "trades", "watch"}, now : Nat,
               matured : SUBSET Candidate, naming : SUBSET Tokens]

(* The queue after an append: a sequence, with exactly the new members.    *)
LEMMA OrderingFacts ==
  ASSUME NEW S \in SUBSET Candidate, NEW q \in Orderings(S)
  PROVE  /\ q \in Seq(Candidate) /\ Len(q) \in Nat
         /\ {q[i] : i \in 1..Len(q)} = S
<1>1. PICK n \in 0..MaturedPerTick : q \in [1..n -> S] /\ \A c \in S : \E i \in 1..n : q[i] = c
  BY DEF Orderings
<1>2. n \in Nat
  BY ConstantTypes
<1>3. q \in Seq(S) /\ q \in Seq(Candidate) /\ Len(q) = n
  BY <1>1, <1>2
<1>4. QED
  BY <1>1, <1>2, <1>3

LEMMA LiveFromFacts ==
  ASSUME TypeOK
  PROVE  /\ LiveFrom \in Int
         /\ \A c \in young \cup QueueSet : LiveFrom < c.first
         /\ young \cup QueueSet = {} => LiveFrom = scannedTo
         /\ \/ LiveFrom = scannedTo
            \/ \E c \in young \cup QueueSet : LiveFrom = c.first - 1
<1> DEFINE F == young \cup QueueSet
<1>0. F \subseteq Candidate
  BY QueueType DEF TypeOK
<1>1. Waiting = {c.first : c \in F}
  BY DEF Waiting
<1>2. \A c \in F : c.first \in Nat
  BY <1>0, TokensAndBlocks DEF Candidate
<1> HIDE DEF F
<1>3. Waiting \subseteq Nat
  BY <1>1, <1>2
<1>4. CASE F = {}
  <2>1. LiveFrom = scannedTo
    BY <1>1, <1>4 DEF LiveFrom
  <2>2. QED
    BY <1>4, <2>1 DEF F, TypeOK
<1>5. CASE F # {}
  <2>0. Waiting # {}
    BY <1>1, <1>5
  <2>1. LeastOf(Waiting) \in Waiting /\ \A y \in Waiting : LeastOf(Waiting) <= y
    BY <1>3, <2>0, LeastOfNat
  <2>2. LiveFrom = LeastOf(Waiting) - 1
    BY <2>0 DEF LiveFrom
  <2>3. PICK c \in F : LeastOf(Waiting) = c.first
    BY <1>1, <2>1
  <2>4. \A d \in F : LeastOf(Waiting) <= d.first
    BY <1>1, <2>1
  <2>5. LiveFrom \in Int /\ LiveFrom = c.first - 1 /\ \A d \in F : LiveFrom < d.first
    BY <1>2, <2>2, <2>3, <2>4
  <2>6. QED
    BY <1>5, <2>3, <2>5 DEF F
<1>6. QED
  BY <1>4, <1>5

LEMMA LiveType ==
  ASSUME TypeOK,
         \/ LiveScan \/ LiveMature \/ LiveMatured \/ LiveDropStale \/ LiveSave \/ LiveFail
         \/ (\E c \in young : LiveNameCurve(c))
         \/ (\E t \in Tokens : LiveShowCurve(t))
  PROVE  TypeOK'
<1> USE DEF LiveRecord
<1>0. live \in LiveRecord /\ LiveIdle \in LiveRecord
  BY DEF TypeOK, LiveIdle
<1>1. CASE LiveScan
  <2>1. scannedTo + 1 \in Int /\ clock \in Int
    BY DEF TypeOK
  <2>2. Group(scannedTo + 1, clock) \subseteq Candidate
    BY <2>1, GroupFacts
  <2>3. young' \subseteq Candidate
    BY <1>1, <2>2 DEF LiveScan, NewLaunches, TypeOK
  <2>4. scannedTo' \in Int
    BY <1>1 DEF LiveScan, Higher, TypeOK
  <2>5. live' \in LiveRecord
    BY <1>0, <1>1 DEF LiveScan
  <2>6. QED
    BY <1>1, <2>3, <2>4, <2>5 DEF LiveScan, TypeOK, memory, files, world, budget, history
<1>2. CASE LiveMature
  <2>1. PICK m \in SUBSET {c \in young : c.first + Window <= clock} :
          /\ live' = [live EXCEPT !.pc = IF m = {} THEN "trades" ELSE "label",
                                  !.now = clock, !.matured = m]
          /\ IF m = {} THEN UNCHANGED pons ELSE PonsOpen("live", m)
    BY <1>2 DEF LiveMature
  <2>2. m \in SUBSET Candidate /\ clock \in Nat
    BY DEF TypeOK
  <2>3. live' \in LiveRecord
    BY <1>0, <2>1, <2>2
  <2>4. pons' \in [PonsLoops -> PonsRecord]
    BY <2>1, <2>2, PonsOpenType DEF TypeOK, PonsRecord, PonsLoops
  <2>5. QED
    BY <1>2, <2>3, <2>4 DEF LiveMature, TypeOK, PonsRecord, memory, window, files, world, budget, history
<1>3. CASE LiveMatured
  <2>1. {c \in live.matured : ~c.curve} \in SUBSET Candidate
    BY <1>0
  <2>2. slowLive' \in Seq(Candidate)
    BY <1>3, <2>1, OrderingFacts, ConcatProperties, SMTT(30) DEF LiveMatured, Pushed, TypeOK
  <2>3. live' \in LiveRecord
    BY <1>0, <1>3 DEF LiveMatured
  <2>4. pons' \in [PonsLoops -> PonsRecord] /\ abandoned' \subseteq Tokens
    BY <1>3, PonsType DEF LiveMatured, PonsReturns, Idle, PonsRecord, PonsLoops, TypeOK
  <2>5. young' \subseteq Candidate
    BY <1>3 DEF LiveMatured, TypeOK
  <2>6. QED
    BY <1>3, <2>2, <2>3, <2>4, <2>5
       DEF LiveMatured, TypeOK, PonsRecord, memory, files, world, budget
<1>4. CASE LiveDropStale
  <2>1. status' \in [Tokens -> Status]
    BY <1>4 DEF LiveDropStale, TypeOK, Status
  <2>2. live' \in LiveRecord
    BY <1>0, <1>4 DEF LiveDropStale
  <2>3. QED
    BY <1>4, <2>1, <2>2 DEF LiveDropStale, TypeOK, window, files, world, budget, history
<1>5. CASE LiveSave
  <2>1. status' \in [Tokens -> Status]
    BY <1>5 DEF LiveSave, TypeOK, Status
  <2>2. saved' \in SavedRecord
    BY <1>5, LiveFromFacts, SaveType DEF LiveSave
  <2>3. QED
    BY <1>0, <1>5, <2>1, <2>2 DEF LiveSave, TypeOK, SavedRecord, window, world, budget, history
<1>6. CASE LiveFail
  <2>1. pons' \in [PonsLoops -> PonsRecord]
    BY <1>6, PonsType DEF LiveFail, Idle, PonsRecord, PonsLoops
  <2>2. QED
    BY <1>0, <1>6, <2>1 DEF LiveFail, TypeOK, PonsRecord, memory, window, files, world, history
<1>7. ASSUME NEW c \in young, LiveNameCurve(c)
      PROVE  TypeOK'
  <2>1. c.token \in Tokens
    BY DEF TypeOK, Candidate
  <2>2. live' \in LiveRecord
    BY <1>0, <1>7, <2>1 DEF LiveNameCurve
  <2>3. QED
    BY <1>7, <2>2 DEF LiveNameCurve, TypeOK, memory, window, files, world, budget, history
<1>8. ASSUME NEW t \in Tokens, LiveShowCurve(t)
      PROVE  TypeOK'
  <2>1. status' \in [Tokens -> Status]
    BY <1>8 DEF LiveShowCurve, TypeOK, Status
  <2>2. live' \in LiveRecord
    BY <1>0, <1>8 DEF LiveShowCurve
  <2>3. QED
    BY <1>8, <2>1, <2>2 DEF LiveShowCurve, TypeOK, window, files, world, budget, history
<1>9. QED
  BY <1>1, <1>2, <1>3, <1>4, <1>5, <1>6, <1>7, <1>8

LEMMA AroundType ==
  ASSUME TypeOK, Tick \/ SaveState \/ Stop \/ Restart
  PROVE  TypeOK'
<1>1. CASE Tick
  BY <1>1 DEF Tick, TypeOK, memory, window, loops, files, budget, history
<1>2. CASE SaveState
  BY <1>2 DEF SaveState, TypeOK, memory, window, loops, world, history
<1>3. CASE Stop
  <2>1. saved' \in SavedRecord
    BY <1>3 DEF Stop, TypeOK, SavedRecord
  <2>2. QED
    BY <1>3, <2>1 DEF Stop, TypeOK, SavedRecord, memory, window, loops, budget, history
<1>4. CASE Restart
  <2>1. /\ pons' \in [PonsLoops -> PonsRecord] /\ slow' \in SlowRecord /\ live' \in LiveRecord
    BY <1>4 DEF Restart, Idle, SlowIdle, LiveIdle, PonsRecord, SlowRecord, LiveRecord
  <2>2. rejected' \subseteq Tokens /\ lost' \subseteq Tokens /\ scannedTo' \in Int
    BY <1>4 DEF Restart, ResumeAt, TypeOK
  <2>3. slowLive' \in Seq(Candidate)
    BY <1>4 DEF Restart
  <2>4. /\ status' \in [Tokens -> Status] /\ stored' \in [Tokens -> Status]
        /\ saved' \in SavedRecord
    BY <1>4 DEF Restart, TypeOK, files, SavedRecord
  <2>5. stopped' \in BOOLEAN /\ quotes' = {} /\ young' = {} /\ clock' = clock /\ fails' = fails
    BY <1>4 DEF Restart
  <2>6. crashes' \in Nat /\ saves' = saves /\ dropped' = dropped /\ abandoned' = abandoned
    BY <1>4 DEF Restart, TypeOK
  <2>7. QED
    BY <2>1, <2>2, <2>3, <2>4, <2>5, <2>6 DEF TypeOK, PonsRecord, SlowRecord, LiveRecord, SavedRecord
<1>5. QED
  BY <1>1, <1>2, <1>3, <1>4

LEMMA NextType == TypeOK /\ [Next]_vars => TypeOK'
<1> SUFFICES ASSUME TypeOK, [Next]_vars
             PROVE  TypeOK'
  OBVIOUS
<1>1. CASE Backfill
  BY <1>1, BackfillType, PonsStepType DEF Backfill, PonsLoops
<1>2. CASE Slow
  BY <1>2, SlowType, DexStepType DEF Slow
<1>3. CASE Live
  BY <1>3, LiveType, PonsStepType DEF Live, PonsLoops
<1>4. CASE Fail
  BY <1>4, BackfillType, SlowType, LiveType DEF Fail
<1>5. CASE Tick \/ SaveState \/ Stop \/ Restart
  BY <1>5, AroundType
<1>6. CASE UNCHANGED vars
  BY <1>6 DEF TypeOK, vars, memory, window, loops, files, world, budget, history
<1>7. QED
  BY <1>1, <1>2, <1>3, <1>4, <1>5, <1>6 DEF Next

(* Every variable of the source keeps its type, for every chain.           *)
THEOREM TypeCorrect == Spec => []TypeOK
<1>1. QED
  BY InitType, NextType, PTL DEF Spec

-----------------------------------------------------------------------------
(* What an answer rests on only grows, in every step but a crash; and each *)
(* part of the invariant survives a step that leaves its variables alone.  *)

LEMMA DoneGrows ==
  ASSUME TypeOK,
         \A u \in Tokens : status[u] \in Labels => status'[u] \in Labels,
         rejected \subseteq rejected', saved.rejected \subseteq saved'.rejected,
         dropped \subseteq dropped', lost \subseteq lost', abandoned \subseteq abandoned'
  PROVE  Done \subseteq Done' /\ Kept \subseteq Kept'
BY DEF Done, Kept, Accounted, HasOutcome

LEMMA FilesKeeps ==
  ASSUME TypeOK, TypeOK', FilesInv, Kept \subseteq Kept', saved' = saved, rejected \subseteq rejected',
         quotes' \subseteq dropped', scannedTo <= scannedTo'
  PROVE  FilesInv'
BY ConstantTypes, SMTT(30) DEF TypeOK, FilesInv, PastCurves, PastOthers, PastLive

LEMMA BackfillKeeps ==
  ASSUME BackfillInv, Done \subseteq Done', pons'["backfill"] = pons["backfill"],
         saved'.backfill = saved.backfill
  PROVE  BackfillInv'
BY DEF BackfillInv, BackfillHand, BackfillLow, Higher

LEMMA SlowKeeps ==
  ASSUME TypeOK, TypeOK', SlowInv, Done \subseteq Done', slow' = slow, saved'.slow = saved.slow,
         Len(slowLive) <= Len(slowLive'),
         \A i \in 1..Len(slowLive) : slowLive'[i] = slowLive[i]
  PROVE  SlowInv'
<1>1. /\ SlowHand' = SlowHand /\ SlowLow' = SlowLow
      /\ slow.size \in Nat /\ Len(slowLive) \in Nat /\ Len(slowLive') \in Nat
  BY SMTT(30) DEF SlowHand, SlowLow, Higher, TypeOK
<1>2. slow.job = "queue" => \A i \in 1..slow.size : slowLive'[i] = slowLive[i]
  BY <1>1 DEF SlowInv
<1>3. slow.job = "queue" =>
        /\ slow.size <= Len(slowLive')
        /\ \A t \in SlowHand : \E i \in 1..slow.size : slowLive'[i].token = t
        /\ \A i \in 1..slow.size : slowLive'[i].token \in Done' \cup SlowHand
  BY <1>1, <1>2 DEF SlowInv
<1>4. QED
  BY <1>1, <1>3 DEF SlowInv

LEMMA FollowKeeps ==
  ASSUME FollowInv, Done \subseteq Done', young' = young, slowLive' = slowLive,
         scannedTo' = scannedTo, saved'.live = saved.live
  PROVE  FollowInv'
BY DEF FollowInv, Followed, QueueSet

LEMMA LiveKeeps ==
  ASSUME LiveInv, Done \subseteq Done', pons'["live"] = pons["live"], live' = live, young' = young,
         \A t \in live.naming : status'[t] \notin Labels
  PROVE  LiveInv'
BY DEF LiveInv, LiveHand

LEMMA InitInv == Init => IInv
<1> SUFFICES ASSUME Init
             PROVE  IInv
  OBVIOUS
<1>1. TypeOK
  BY InitType
<1>2. FilesInv
  BY ConstantTypes, TokensAndBlocks DEF Init, FilesInv, PastCurves, PastOthers, PastLive
<1>3. BackfillInv
  BY DEF Init, BackfillInv, BackfillHand, Hand, Idle, PonsLoops
<1>4. SlowInv
  BY DEF Init, SlowInv, SlowHand, SlowIdle
<1>5. Followed = {} /\ young = {} /\ QueueSet = {}
  BY DEF Init, Followed, QueueSet
<1>6. FollowInv
  BY <1>5, ConstantTypes, TokensAndBlocks DEF Init, FollowInv
<1>7. LiveInv
  BY DEF Init, LiveInv, LiveHand, Hand, Idle, LiveIdle, PonsLoops
<1>8. QED
  BY <1>1, <1>2, <1>3, <1>4, <1>6, <1>7 DEF IInv

(* A step of resolvePons: it puts down only what is done, takes up         *)
(* nothing, and labels only what it has in hand.                           *)
LEMMA PonsStepFacts ==
  ASSUME TypeOK, TypeOK', NEW p \in PonsLoops, PonsStep(p),
         pons[p].pc = "idle" => Hand(pons[p]) = {},
         pons[p].pc = "finish" => pons[p].todo = {}
  PROVE  /\ Done \subseteq Done' /\ Kept \subseteq Kept'
         /\ \A u \in Tokens : status[u] \in Labels => status'[u] \in Labels
         /\ \A o \in PonsLoops : o # p => pons'[o] = pons[o]
         /\ Hand(pons'[p]) \subseteq Hand(pons[p])
         /\ Hand(pons[p]) \subseteq Hand(pons'[p]) \cup Done'
         /\ pons[p].pc # "idle" /\ pons'[p].pc # "idle"
         /\ pons'[p].pc = "finish" => pons'[p].todo = {}
         /\ \A u \in Tokens : status'[u] \in Labels => status[u] \in Labels \/ u \in Hand(pons[p])
         /\ rejected \subseteq rejected' /\ dropped \subseteq dropped' /\ quotes' = quotes
         /\ slow' = slow /\ live' = live /\ saved' = saved
         /\ young' = young /\ slowLive' = slowLive /\ scannedTo' = scannedTo
<1> DEFINE Goal1 == /\ \A u \in Tokens : status[u] \in Labels => status'[u] \in Labels
                    /\ rejected \subseteq rejected' /\ dropped \subseteq dropped'
                    /\ lost' = lost /\ abandoned' = abandoned
                    /\ quotes' = quotes /\ slow' = slow /\ live' = live /\ saved' = saved
                    /\ young' = young /\ slowLive' = slowLive /\ scannedTo' = scannedTo
           Goal2 == /\ \A o \in PonsLoops : o # p => pons'[o] = pons[o]
                    /\ Hand(pons'[p]) \subseteq Hand(pons[p])
                    /\ pons[p].pc # "idle" /\ pons'[p].pc # "idle"
                    /\ pons'[p].pc = "finish" => pons'[p].todo = {}
           Goal3 == /\ \A u \in Hand(pons[p]) \ Hand(pons'[p]) :
                         status'[u] \in Labels \/ u \in rejected' \cup dropped'
                    /\ \A u \in Tokens : status'[u] \in Labels => status[u] \in Labels \/ u \in Hand(pons[p])
<1>0. pons \in [PonsLoops -> PonsRecord] /\ pons[p] \in PonsRecord
  BY DEF TypeOK, PonsRecord
<1>1. ASSUME NEW t \in Tokens, PonsUntraded(p, t)
      PROVE  Goal1 /\ Goal2 /\ Goal3
  <2>1. Goal1
    BY <1>1, DropFacts DEF PonsUntraded, window, files
  <2>2. pons' = [pons EXCEPT ![p] = [pons[p] EXCEPT !.todo = @ \ {t}]]
    BY <1>1, <1>0 DEF PonsUntraded
  <2>3. pons'[p] = [pons[p] EXCEPT !.todo = @ \ {t}]
    BY <2>2, <1>0
  <2>4. Goal2
    BY <1>0, <1>1, <2>2, <2>3 DEF PonsUntraded, Hand, PonsRecord
  <2>5. Goal3
    BY <1>0, <1>1, <2>3, DropFacts DEF PonsUntraded, Hand, PonsRecord
  <2>6. QED
    BY <2>1, <2>4, <2>5
<1>2. ASSUME NEW t \in Tokens, PonsPriced(p, t)
      PROVE  Goal1 /\ Goal2 /\ Goal3
  <2>1. Goal1
    BY <1>2 DEF PonsPriced, memory, window, files, history
  <2>2. pons' = [pons EXCEPT ![p] = [pons[p] EXCEPT !.todo = @ \ {t}, !.priced = @ \cup {t}]]
    BY <1>2, <1>0 DEF PonsPriced
  <2>3. pons'[p] = [pons[p] EXCEPT !.todo = @ \ {t}, !.priced = @ \cup {t}]
    BY <2>2, <1>0
  <2>4. Goal2
    BY <1>0, <1>2, <2>2, <2>3 DEF PonsPriced, Hand, PonsRecord
  <2>5. Goal3
    BY <1>0, <1>2, <2>3 DEF PonsPriced, Hand, PonsRecord, memory
  <2>6. QED
    BY <2>1, <2>4, <2>5
<1>3. ASSUME NEW t \in Tokens, PonsBelow(p, t)
      PROVE  Goal1 /\ Goal2 /\ Goal3
  <2>1. Goal1
    BY <1>3, DropFacts DEF PonsBelow, window, files, history
  <2>2. pons' = [pons EXCEPT ![p] = [pons[p] EXCEPT !.priced = @ \ {t}]]
    BY <1>3, <1>0 DEF PonsBelow
  <2>3. pons'[p] = [pons[p] EXCEPT !.priced = @ \ {t}]
    BY <2>2, <1>0
  <2>4. Goal2
    BY <1>0, <1>3, <2>2, <2>3 DEF PonsBelow, Hand, PonsRecord
  <2>5. Goal3
    BY <1>0, <1>3, <2>3, DropFacts DEF PonsBelow, Hand, PonsRecord
  <2>6. QED
    BY <2>1, <2>4, <2>5
<1>4. ASSUME NEW t \in Tokens, PonsName(p, t)
      PROVE  Goal1 /\ Goal2 /\ Goal3
  <2>1. Goal1
    BY <1>4 DEF PonsName, memory, window, files, history
  <2>2. pons' = [pons EXCEPT ![p] = [pons[p] EXCEPT !.priced = @ \ {t}, !.naming = {t}]]
    BY <1>4, <1>0 DEF PonsName
  <2>3. pons'[p] = [pons[p] EXCEPT !.priced = @ \ {t}, !.naming = {t}]
    BY <2>2, <1>0
  <2>4. Goal2
    BY <1>0, <1>4, <2>2, <2>3 DEF PonsName, Hand, PonsRecord
  <2>5. Goal3
    BY <1>0, <1>4, <2>3 DEF PonsName, Hand, PonsRecord, memory
  <2>6. QED
    BY <2>1, <2>4, <2>5
<1>5. ASSUME NEW t \in Tokens, PonsLabel(p, t)
      PROVE  Goal1 /\ Goal2 /\ Goal3
  <2>0. PICK s \in Labels : status' = [status EXCEPT ![t] = s]
    BY <1>5 DEF PonsLabel
  <2>1. Goal1
    BY <1>5, <2>0 DEF PonsLabel, window, files, history, TypeOK
  <2>2. pons' = [pons EXCEPT ![p] = [pons[p] EXCEPT !.naming = @ \ {t}]]
    BY <1>5, <1>0 DEF PonsLabel
  <2>3. pons'[p] = [pons[p] EXCEPT !.naming = @ \ {t}]
    BY <2>2, <1>0
  <2>4. Goal2
    BY <1>0, <1>5, <2>2, <2>3 DEF PonsLabel, Hand, PonsRecord
  <2>5. t \in pons[p].naming /\ t \in Hand(pons[p])
    BY <1>5 DEF PonsLabel, Hand
  <2>6. \A u \in Tokens : status'[u] \in Labels => status[u] \in Labels \/ u \in Hand(pons[p])
    BY <2>0, <2>5 DEF TypeOK
  <2>7. \A u \in Hand(pons[p]) \ Hand(pons'[p]) : u = t
    BY <1>0, <2>3 DEF Hand, PonsRecord
  <2>8. status'[t] \in Labels
    BY <2>0 DEF TypeOK
  <2>9. QED
    BY <2>1, <2>4, <2>6, <2>7, <2>8
<1>6. ASSUME PonsAllPriced(p)
      PROVE  Goal1 /\ Goal2 /\ Goal3
  <2>1. Goal1
    BY <1>6 DEF PonsAllPriced, memory, window, files, history
  <2>2. pons' = [pons EXCEPT ![p] = [pons[p] EXCEPT !.pc = "finish"]]
    BY <1>6, <1>0 DEF PonsAllPriced
  <2>3. pons'[p] = [pons[p] EXCEPT !.pc = "finish"]
    BY <2>2, <1>0
  <2>4. Goal2
    BY <1>0, <1>6, <2>2, <2>3 DEF PonsAllPriced, Hand, PonsRecord
  <2>5. Goal3
    BY <1>0, <1>6, <2>3 DEF PonsAllPriced, Hand, PonsRecord, memory
  <2>6. QED
    BY <2>1, <2>4, <2>5
<1> HIDE DEF Goal1, Goal2, Goal3
<1>7. Goal1 /\ Goal2 /\ Goal3
  BY <1>1, <1>2, <1>3, <1>4, <1>5, <1>6 DEF PonsStep
<1>8. Done \subseteq Done' /\ Kept \subseteq Kept'
  BY <1>7, DoneGrows DEF Goal1
<1>9. Hand(pons[p]) \subseteq Hand(pons'[p]) \cup Done'
  BY <1>0, <1>7 DEF Goal2, Goal3, Hand, PonsRecord, Done, Accounted, HasOutcome
<1>10. QED
  BY <1>7, <1>8, <1>9 DEF Goal1, Goal2, Goal3

(* A step of resolveDex, likewise.                                         *)
LEMMA DexStepFacts ==
  ASSUME TypeOK, TypeOK', SlowInv, quotes \subseteq dropped, DexStep
  PROVE  /\ Done \subseteq Done' /\ Kept \subseteq Kept'
         /\ \A u \in Tokens : status[u] \in Labels => status'[u] \in Labels
         /\ SlowHand' \subseteq SlowHand
         /\ SlowHand \subseteq SlowHand' \cup Done'
         /\ slow.pc # "idle" /\ slow'.pc = slow.pc /\ slow'.job = slow.job /\ slow'.size = slow.size
         /\ \A u \in Tokens : status'[u] \in Labels => status[u] \in Labels \/ u \in SlowHand
         /\ rejected \subseteq rejected' /\ quotes' \subseteq dropped'
         /\ pons' = pons /\ live' = live /\ saved' = saved
         /\ young' = young /\ slowLive' = slowLive /\ scannedTo' = scannedTo
<1> DEFINE Goal1 == /\ \A u \in Tokens : status[u] \in Labels => status'[u] \in Labels
                    /\ rejected \subseteq rejected' /\ dropped \subseteq dropped'
                    /\ lost' = lost /\ abandoned' = abandoned
                    /\ quotes' \subseteq dropped' /\ pons' = pons /\ live' = live /\ saved' = saved
                    /\ young' = young /\ slowLive' = slowLive /\ scannedTo' = scannedTo
           Goal2 == /\ SlowHand' \subseteq SlowHand
                    /\ slow.pc # "idle" /\ slow'.pc = slow.pc /\ slow'.job = slow.job /\ slow'.size = slow.size
           Goal3 == /\ \A u \in SlowHand \ SlowHand' : status'[u] \in Labels \/ u \in rejected' \cup dropped'
                    /\ \A u \in Tokens : status'[u] \in Labels => status[u] \in Labels \/ u \in SlowHand
<1>0. slow \in SlowRecord /\ (slow.pc = "idle" => SlowHand = {})
  BY DEF TypeOK, SlowRecord, SlowInv
<1> USE DEF SlowRecord
<1>1. ASSUME NEW t \in Tokens, DexOlder(t)
      PROVE  Goal1 /\ Goal2 /\ Goal3
  <2>1. Goal1
    BY <1>1, DropFacts DEF DexOlder, window, files
  <2>2. Goal2
    BY <1>0, <1>1 DEF DexOlder, DexNext, SlowHand
  <2>3. Goal3
    BY <1>0, <1>1, DropFacts DEF DexOlder, SlowHand
  <2>4. QED
    BY <2>1, <2>2, <2>3
<1>2. ASSUME NEW t \in Tokens, DexUnlisted(t)
      PROVE  Goal1 /\ Goal2 /\ Goal3
  <2>1. Goal1
    BY <1>2, DropFacts DEF DexUnlisted, window, files
  <2>2. Goal2
    BY <1>0, <1>2 DEF DexUnlisted, DexNext, SlowHand
  <2>3. Goal3
    BY <1>0, <1>2, DropFacts DEF DexUnlisted, SlowHand
  <2>4. QED
    BY <2>1, <2>2, <2>3
<1>3. ASSUME NEW t \in Tokens, DexLookup(t)
      PROVE  Goal1 /\ Goal2 /\ Goal3
  <2>1. Goal1
    BY <1>3 DEF DexLookup, memory, window, files, history
  <2>2. Goal2
    BY <1>0, <1>3 DEF DexLookup, DexNext, SlowHand
  <2>3. Goal3
    BY <1>0, <1>3 DEF DexLookup, DexNext, SlowHand, memory
  <2>4. QED
    BY <2>1, <2>2, <2>3
<1>4. ASSUME NEW t \in Tokens, DexUntraded(t)
      PROVE  Goal1 /\ Goal2 /\ Goal3
  <2>1. Goal1
    BY <1>4, DropFacts DEF DexUntraded, window, files
  <2>2. Goal2
    BY <1>0, <1>4 DEF DexUntraded, SlowHand
  <2>3. Goal3
    BY <1>0, <1>4, DropFacts DEF DexUntraded, SlowHand
  <2>4. QED
    BY <2>1, <2>2, <2>3
<1>5. ASSUME NEW t \in Tokens, DexBelow(t)
      PROVE  Goal1 /\ Goal2 /\ Goal3
  <2>1. Goal1
    BY <1>5, DropFacts DEF DexBelow, window, files, history
  <2>2. Goal2
    BY <1>0, <1>5 DEF DexBelow, SlowHand
  <2>3. Goal3
    BY <1>0, <1>5, DropFacts DEF DexBelow, SlowHand
  <2>4. QED
    BY <2>1, <2>2, <2>3
<1>6. ASSUME NEW t \in Tokens, DexName(t)
      PROVE  Goal1 /\ Goal2 /\ Goal3
  <2>1. Goal1
    BY <1>6 DEF DexName, memory, window, files, history
  <2>2. Goal2
    BY <1>0, <1>6 DEF DexName, SlowHand
  <2>3. Goal3
    BY <1>0, <1>6 DEF DexName, SlowHand, memory
  <2>4. QED
    BY <2>1, <2>2, <2>3
<1>7. ASSUME NEW t \in Tokens, DexLabel(t)
      PROVE  Goal1 /\ Goal2 /\ Goal3
  <2>0. PICK s \in Labels : status' = [status EXCEPT ![t] = s]
    BY <1>7 DEF DexLabel
  <2>1. Goal1
    BY <1>7, <2>0 DEF DexLabel, window, files, history, TypeOK
  <2>2. Goal2
    BY <1>0, <1>7 DEF DexLabel, SlowHand
  <2>3. SlowHand \ SlowHand' \subseteq {t} /\ t \in SlowHand
    BY <1>0, <1>7 DEF DexLabel, SlowHand
  <2>4. Goal3
    BY <2>0, <2>3, SMTT(30) DEF TypeOK
  <2>5. QED
    BY <2>1, <2>2, <2>4
<1> HIDE DEF Goal1, Goal2, Goal3
<1>8. Goal1 /\ Goal2 /\ Goal3
  BY <1>1, <1>2, <1>3, <1>4, <1>5, <1>6, <1>7 DEF DexStep
<1>9. Done \subseteq Done' /\ Kept \subseteq Kept'
  BY <1>8, DoneGrows DEF Goal1
<1>10. SlowHand \subseteq SlowHand' \cup Done'
  BY <1>0, <1>8 DEF Goal2, Goal3, SlowHand, Done, Accounted, HasOutcome
<1>11. QED
  BY <1>8, <1>9, <1>10 DEF Goal1, Goal2, Goal3

-----------------------------------------------------------------------------
(* Preservation, one group of actions at a time.                           *)

(* watch() awaits the name of a young curve while the other loops label.   *)
(* None of them has that token in hand: history ends where the live loop   *)
(* begins, a curve never queues, and resolvePons is not under way in watch.*)
LEMMA NamingApart ==
  ASSUME TypeOK, BackfillInv, SlowInv, FollowInv, LiveInv, NEW t \in live.naming
  PROVE  t \notin BackfillHand /\ t \notin SlowHand /\ t \notin LiveHand
<1>1. PICK c \in young : c.curve /\ c.token = t
  BY DEF LiveInv
<1>2. PICK l \in Launch : l.token = t /\ l.curve /\ Edge <= l.block
  BY <1>1 DEF FollowInv
<1>3. ASSUME NEW k \in Launch, k.token = t, k.block < Edge
      PROVE  FALSE
  <2>1. k # l
    BY <1>2, <1>3, ConstantTypes, TokensAndBlocks
  <2>2. l.block <= k.block
    BY <1>2, <1>3, <2>1, CurveComesFirst
  <2>3. QED
    BY <1>2, <1>3, <2>2, ConstantTypes, TokensAndBlocks
<1>4. t \notin BackfillHand
  BY <1>3 DEF BackfillInv
<1>5. t \notin LiveHand
  BY DEF LiveInv
<1>6. t \notin SlowHand
  <2>1. CASE slow.job = "history"
    BY <1>3, <2>1 DEF SlowInv
  <2>2. CASE slow.job = "queue"
    <3>1. \A i \in 1..slow.size : slowLive[i] \in QueueSet
      BY <2>2, QueueType DEF SlowInv, QueueSet, TypeOK
    <3>2. QED
      BY <1>1, <2>2, <3>1 DEF SlowInv, FollowInv
  <2>3. QED
    BY <2>1, <2>2 DEF SlowInv
<1>7. QED
  BY <1>4, <1>5, <1>6

LEMMA PonsBackfillInv ==
  ASSUME IInv, TypeOK', PonsStep("backfill")
  PROVE  IInv'
<1> USE DEF PonsLoops
<1>0. /\ TypeOK /\ FilesInv /\ BackfillInv /\ SlowInv /\ FollowInv /\ LiveInv
      /\ pons["backfill"].pc = "idle" => Hand(pons["backfill"]) = {}
      /\ pons["backfill"].pc = "finish" => pons["backfill"].todo = {}
  BY DEF IInv, BackfillInv, BackfillHand
<1>1. /\ Done \subseteq Done' /\ Kept \subseteq Kept'
      /\ pons'["live"] = pons["live"]
      /\ Hand(pons'["backfill"]) \subseteq Hand(pons["backfill"])
      /\ Hand(pons["backfill"]) \subseteq Hand(pons'["backfill"]) \cup Done'
      /\ pons["backfill"].pc # "idle" /\ pons'["backfill"].pc # "idle"
      /\ pons'["backfill"].pc = "finish" => pons'["backfill"].todo = {}
      /\ \A u \in Tokens : status'[u] \in Labels => status[u] \in Labels \/ u \in Hand(pons["backfill"])
      /\ rejected \subseteq rejected' /\ dropped \subseteq dropped' /\ quotes' = quotes
      /\ slow' = slow /\ live' = live /\ saved' = saved
      /\ young' = young /\ slowLive' = slowLive /\ scannedTo' = scannedTo
  BY <1>0, PonsStepFacts
<1>2. FilesInv'
  BY <1>0, <1>1, FilesKeeps DEF FilesInv, TypeOK
<1>3. BackfillInv'
  <2>1. BackfillLow' = BackfillLow
    BY <1>1 DEF BackfillLow, Higher
  <2>2. QED
    BY <1>0, <1>1, <2>1 DEF BackfillInv, BackfillHand
<1>4. SlowInv' /\ FollowInv'
  BY <1>0, <1>1, SlowKeeps, FollowKeeps, QueueType
<1>5. \A t \in live.naming : status'[t] \notin Labels
  BY <1>0, <1>1, NamingApart DEF LiveInv, BackfillHand, TypeOK
<1>6. LiveInv'
  BY <1>0, <1>1, <1>5, LiveKeeps
<1>7. QED
  BY <1>2, <1>3, <1>4, <1>6 DEF IInv

LEMMA PonsLiveInv ==
  ASSUME IInv, TypeOK', PonsStep("live")
  PROVE  IInv'
<1> USE DEF PonsLoops
<1>0. /\ TypeOK /\ FilesInv /\ BackfillInv /\ SlowInv /\ FollowInv /\ LiveInv
      /\ pons["live"].pc = "idle" => Hand(pons["live"]) = {}
      /\ pons["live"].pc = "finish" => pons["live"].todo = {}
  BY DEF IInv, LiveInv, LiveHand
<1>1. /\ Done \subseteq Done' /\ Kept \subseteq Kept'
      /\ pons'["backfill"] = pons["backfill"]
      /\ Hand(pons'["live"]) \subseteq Hand(pons["live"])
      /\ Hand(pons["live"]) \subseteq Hand(pons'["live"]) \cup Done'
      /\ pons["live"].pc # "idle" /\ pons'["live"].pc # "idle"
      /\ pons'["live"].pc = "finish" => pons'["live"].todo = {}
      /\ \A u \in Tokens : status'[u] \in Labels => status[u] \in Labels \/ u \in Hand(pons["live"])
      /\ rejected \subseteq rejected' /\ dropped \subseteq dropped' /\ quotes' = quotes
      /\ slow' = slow /\ live' = live /\ saved' = saved
      /\ young' = young /\ slowLive' = slowLive /\ scannedTo' = scannedTo
  BY <1>0, PonsStepFacts
<1>2. FilesInv'
  BY <1>0, <1>1, FilesKeeps DEF FilesInv, TypeOK
<1>3. BackfillInv' /\ SlowInv' /\ FollowInv'
  BY <1>0, <1>1, BackfillKeeps, SlowKeeps, FollowKeeps, QueueType
<1>4. \A t \in live.naming : status'[t] \notin Labels
  BY <1>0, <1>1, NamingApart DEF LiveInv, LiveHand, TypeOK
<1>5. LiveInv'
  BY <1>0, <1>1, <1>4 DEF LiveInv, LiveHand
<1>6. QED
  BY <1>2, <1>3, <1>5 DEF IInv

LEMMA DexInv ==
  ASSUME IInv, TypeOK', DexStep
  PROVE  IInv'
<1>0. /\ TypeOK /\ FilesInv /\ BackfillInv /\ SlowInv /\ FollowInv /\ LiveInv
      /\ quotes \subseteq dropped
  BY DEF IInv, FilesInv
<1>1. /\ Done \subseteq Done' /\ Kept \subseteq Kept'
      /\ SlowHand' \subseteq SlowHand
      /\ SlowHand \subseteq SlowHand' \cup Done'
      /\ slow.pc # "idle" /\ slow'.pc = slow.pc /\ slow'.job = slow.job /\ slow'.size = slow.size
      /\ \A u \in Tokens : status'[u] \in Labels => status[u] \in Labels \/ u \in SlowHand
      /\ rejected \subseteq rejected' /\ quotes' \subseteq dropped'
      /\ pons' = pons /\ live' = live /\ saved' = saved
      /\ young' = young /\ slowLive' = slowLive /\ scannedTo' = scannedTo
  BY <1>0, DexStepFacts
<1>2. FilesInv'
  BY <1>0, <1>1, FilesKeeps DEF TypeOK
<1>3. BackfillInv' /\ FollowInv'
  BY <1>0, <1>1, BackfillKeeps, FollowKeeps
<1>4. SlowInv'
  <2>1. SlowLow' = SlowLow
    BY <1>1 DEF SlowLow, Higher
  <2>2. QED
    BY <1>0, <1>1, <2>1 DEF SlowInv
<1>5. \A t \in live.naming : status'[t] \notin Labels
  BY <1>0, <1>1, NamingApart DEF LiveInv, TypeOK
<1>6. LiveInv'
  BY <1>0, <1>1, <1>5, LiveKeeps
<1>7. QED
  BY <1>2, <1>3, <1>4, <1>6 DEF IInv

(* What open() leaves out is done.                                         *)
LEMMA OpenDone ==
  ASSUME TypeOK, quotes \subseteq dropped, NEW cs \in SUBSET Candidate, NEW c \in cs
  PROVE  c.token \in Done \cup TokensOf(Open(cs))
BY DEF TypeOK, Candidate, Open, TokensOf, Done, Accounted, HasOutcome, Status, Labels

LEMMA BackfillLoopInv ==
  ASSUME IInv, TypeOK', BackfillStart \/ BackfillDone \/ BackfillFail
  PROVE  IInv'
<1> USE DEF PonsLoops
<1>0. /\ TypeOK /\ FilesInv /\ BackfillInv /\ SlowInv /\ FollowInv /\ LiveInv
      /\ pons \in [PonsLoops -> PonsRecord]
      /\ \A t \in live.naming : status[t] \notin Labels
  BY DEF IInv, TypeOK, PonsRecord, LiveInv
<1>1. CASE BackfillStart
  <2> DEFINE g == Group(BackfillLow, saved.backfill)
             h == {c \in g : c.token \in Sampled}
             cs == {c \in h : c.curve}
  <2>0. pons' = [pons EXCEPT !["backfill"] =
                   [Idle EXCEPT !.pc = "judge", !.todo = TokensOf(Open(cs))]]
    BY <1>1 DEF BackfillStart, PonsOpen
  <2>1. /\ status' = status /\ rejected' = rejected /\ quotes' = quotes /\ dropped' = dropped
        /\ lost' = lost /\ abandoned' = abandoned /\ slow' = slow /\ live' = live /\ saved' = saved
        /\ young' = young /\ slowLive' = slowLive /\ scannedTo' = scannedTo
    BY <1>1 DEF BackfillStart, memory, window, files, history
  <2>2. Done \subseteq Done' /\ Kept \subseteq Kept'
    BY <1>0, <2>1, DoneGrows
  <2>3. FilesInv'
    <3>1. quotes' \subseteq dropped' /\ scannedTo <= scannedTo' /\ rejected \subseteq rejected' /\ saved' = saved
      BY <1>0, <2>1 DEF FilesInv, TypeOK
    <3>2. QED
      BY <1>0, <2>2, <3>1, FilesKeeps
  <2>4. pons'["live"] = pons["live"]
    BY <1>0, <2>0
  <2>5. SlowInv' /\ FollowInv' /\ LiveInv'
    BY <1>0, <2>1, <2>2, <2>4, SlowKeeps, FollowKeeps, LiveKeeps, QueueType
  <2>6. BackfillLow \in Int /\ saved.backfill \in Int /\ BackfillLow' = BackfillLow
    BY <1>0, <2>1, ChunkTypes DEF TypeOK, BackfillLow, Higher
  <2>7. /\ g \subseteq Candidate
        /\ \A l \in Launch : BackfillLow <= l.block /\ l.block <= saved.backfill =>
             l.token \in quotes \/ \E c \in g : c.token = l.token
        /\ \A c \in g : /\ c.curve => \E l \in Launch : l.token = c.token /\ l.curve /\ l.block <= saved.backfill
                        /\ \A l \in Launch : /\ l.token = c.token /\ l.curve
                                              /\ BackfillLow <= l.block /\ l.block <= saved.backfill => c.curve
    BY <2>6, GroupFacts
  <2> HIDE DEF g
  <2>8. /\ pons'["backfill"].pc = "judge" /\ BackfillHand' = TokensOf(Open(cs))
    BY <1>0, <2>0 DEF Idle, BackfillHand, Hand
  <2>9. \A t \in BackfillHand' : \E l \in Launch : l.token = t /\ l.curve /\ l.block < Edge
    <3>1. ASSUME NEW t \in TokensOf(Open(cs))
          PROVE  \E l \in Launch : l.token = t /\ l.curve /\ l.block < Edge
      <4>1. PICK c \in cs : c.token = t
        BY DEF TokensOf, Open
      <4>2. PICK l \in Launch : l.token = t /\ l.curve /\ l.block <= saved.backfill
        BY <2>7, <4>1
      <4>3. l.block < Edge
        BY <1>0, <2>6, <4>2, TokensAndBlocks, ConstantTypes DEF FilesInv
      <4>4. QED
        BY <4>2, <4>3
    <3>2. QED
      BY <2>8, <3>1
  <2>10. ASSUME NEW l \in Launch, l.curve, l.token \in Sampled,
                BackfillLow <= l.block, l.block <= saved.backfill
         PROVE  l.token \in Done \cup TokensOf(Open(cs))
    <3>1. CASE l.token \in quotes
      BY <1>0, <3>1, TokensAndBlocks DEF FilesInv, Done, Accounted, HasOutcome
    <3>2. CASE l.token \notin quotes
      <4>1. PICK c \in g : c.token = l.token
        BY <2>7, <2>10, <3>2
      <4>2. c.curve
        BY <2>7, <2>10, <4>1
      <4>3. c \in cs /\ cs \in SUBSET Candidate
        BY <2>7, <2>10, <4>1, <4>2
      <4>4. c.token \in Done \cup TokensOf(Open(cs))
        BY <1>0, <4>3, OpenDone DEF FilesInv
      <4>5. QED
        BY <4>1, <4>4
    <3>3. QED
      BY <3>1, <3>2
  <2>11. BackfillInv'
    BY <2>1, <2>2, <2>6, <2>8, <2>9, <2>10 DEF BackfillInv
  <2>12. QED
    BY <2>3, <2>5, <2>11 DEF IInv
<1>2. CASE BackfillDone
  <2>1. /\ pons' = [pons EXCEPT !["backfill"] = Idle]
        /\ abandoned' = abandoned \cup pons["backfill"].priced
        /\ saved' = [saved EXCEPT !.backfill = BackfillLow - 1, !.rejected = rejected]
        /\ status' = status /\ rejected' = rejected /\ quotes' = quotes /\ dropped' = dropped
        /\ lost' = lost /\ slow' = slow /\ live' = live
        /\ young' = young /\ slowLive' = slowLive /\ scannedTo' = scannedTo
        /\ pons["backfill"].pc = "finish" /\ pons["backfill"].naming = {}
    BY <1>2 DEF BackfillDone, PonsReturns, Save, memory, window
  <2>2. /\ saved'.backfill = BackfillLow - 1 /\ saved'.rejected = rejected
        /\ saved'.slow = saved.slow /\ saved'.live = saved.live
    BY <1>0, <2>1 DEF TypeOK
  <2>3. Done \subseteq Done' /\ Kept \subseteq Kept'
    BY <1>0, <2>1, <2>2, DoneGrows DEF FilesInv
  <2>4. BackfillHand \subseteq Done' /\ Done' \subseteq Kept'
    BY <1>0, <2>1, <2>2
       DEF BackfillInv, BackfillHand, Hand, PonsRecord, Done, Kept, Accounted, HasOutcome
  <2>5. /\ BackfillLow \in Int /\ saved.backfill \in Int
        /\ Oldest - 1 <= BackfillLow - 1 /\ BackfillLow - 1 < Edge
    <3>1. saved.backfill \in Int /\ saved.backfill < Edge
      BY <1>0 DEF TypeOK, FilesInv
    <3>2. BackfillLow <= saved.backfill \/ BackfillLow = Oldest
      BY <3>1, ConstantTypes DEF BackfillLow, Higher
    <3>3. QED
      BY <1>0, <3>1, <3>2, ChunkTypes, ConstantTypes
  <2>6. \A l \in PastCurves' : l.token \in Kept'
    <3>1. ASSUME NEW l \in Launch, l.curve, l.token \in Sampled, BackfillLow - 1 < l.block, l.block < Edge
          PROVE  l.token \in Kept'
      <4>1. CASE l.block <= saved.backfill
        <5>1. BackfillLow <= l.block
          BY <2>5, <3>1, TokensAndBlocks
        <5>2. l.token \in Done \cup BackfillHand
          BY <1>0, <2>1, <3>1, <4>1, <5>1 DEF BackfillInv
        <5>3. QED
          BY <2>3, <2>4, <5>2
      <4>2. CASE saved.backfill < l.block
        BY <1>0, <2>3, <3>1, <4>2 DEF FilesInv, PastCurves
      <4>3. QED
        BY <2>5, <4>1, <4>2, TokensAndBlocks
    <3>2. QED
      BY <2>2, <3>1 DEF PastCurves
  <2>7. \A l \in PastOthers' \cup PastLive' : l.token \in Kept'
    BY <1>0, <2>2, <2>3 DEF FilesInv, PastOthers, PastLive
  <2>8. FilesInv'
    BY <1>0, <2>1, <2>2, <2>5, <2>6, <2>7 DEF FilesInv
  <2>9. pons'["backfill"] = Idle /\ pons'["live"] = pons["live"]
    BY <1>0, <2>1
  <2>10. BackfillInv'
    BY <2>9 DEF BackfillInv, BackfillHand, Hand, Idle
  <2>11. SlowInv' /\ FollowInv' /\ LiveInv'
    BY <1>0, <2>1, <2>2, <2>3, <2>9, SlowKeeps, FollowKeeps, LiveKeeps, QueueType
  <2>12. QED
    BY <2>8, <2>10, <2>11 DEF IInv
<1>3. CASE BackfillFail
  <2>1. /\ pons' = [pons EXCEPT !["backfill"] = Idle]
        /\ status' = status /\ rejected' = rejected /\ quotes' = quotes /\ dropped' = dropped
        /\ lost' = lost /\ abandoned' = abandoned /\ slow' = slow /\ live' = live /\ saved' = saved
        /\ young' = young /\ slowLive' = slowLive /\ scannedTo' = scannedTo
    BY <1>3 DEF BackfillFail, memory, window, files, history
  <2>2. Done \subseteq Done' /\ Kept \subseteq Kept'
    BY <1>0, <2>1, DoneGrows
  <2>3. pons'["backfill"] = Idle /\ pons'["live"] = pons["live"]
    BY <1>0, <2>1
  <2>4. FilesInv'
    BY <1>0, <2>1, <2>2, FilesKeeps DEF FilesInv, TypeOK
  <2>5. BackfillInv'
    BY <2>3 DEF BackfillInv, BackfillHand, Hand, Idle
  <2>6. SlowInv' /\ FollowInv' /\ LiveInv'
    BY <1>0, <2>1, <2>2, <2>3, SlowKeeps, FollowKeeps, LiveKeeps, QueueType
  <2>7. QED
    BY <2>4, <2>5, <2>6 DEF IInv
<1>4. QED
  BY <1>1, <1>2, <1>3

LEMMA SlowStartInv ==
  ASSUME IInv, TypeOK', SlowStart
  PROVE  IInv'
<1> DEFINE g == Group(SlowLow, saved.slow)
           h == {c \in g : c.token \in Sampled}
           cs == {c \in h : ~c.curve}
<1>0. slow' = [SlowIdle EXCEPT !.pc = "dex", !.job = "history", !.size = 0, !.todo = TokensOf(Open(cs))]
  BY DEF SlowStart, DexOpen
<1>1. /\ TypeOK /\ FilesInv /\ BackfillInv /\ SlowInv /\ FollowInv /\ LiveInv
      /\ \A t \in live.naming : status[t] \notin Labels
  BY DEF IInv, LiveInv
<1>2. /\ status' = status /\ rejected' = rejected /\ quotes' = quotes /\ dropped' = dropped
      /\ lost' = lost /\ abandoned' = abandoned /\ pons' = pons /\ live' = live /\ saved' = saved
      /\ young' = young /\ slowLive' = slowLive /\ scannedTo' = scannedTo
  BY DEF SlowStart, memory, window, files, history
<1>3. Done \subseteq Done' /\ Kept \subseteq Kept'
  BY <1>1, <1>2, DoneGrows
<1>4. FilesInv'
  <2>1. quotes' \subseteq dropped' /\ scannedTo <= scannedTo' /\ rejected \subseteq rejected' /\ saved' = saved
    BY <1>1, <1>2 DEF FilesInv, TypeOK
  <2>2. QED
    BY <1>1, <1>3, <2>1, FilesKeeps
<1>5. BackfillInv' /\ FollowInv' /\ LiveInv'
  BY <1>1, <1>2, <1>3, BackfillKeeps, FollowKeeps, LiveKeeps
<1>6. SlowLow \in Int /\ saved.slow \in Int /\ SlowLow' = SlowLow
  BY <1>1, <1>2, ChunkTypes DEF TypeOK, SlowLow, Higher
<1>7. /\ g \subseteq Candidate
      /\ \A l \in Launch : SlowLow <= l.block /\ l.block <= saved.slow =>
           l.token \in quotes \/ \E c \in g : c.token = l.token
      /\ \A c \in g : /\ c.first <= saved.slow
                      /\ \E l \in Launch : l.token = c.token /\ l.block = c.first
                      /\ c.curve => \E l \in Launch : l.token = c.token /\ l.curve
  BY <1>6, GroupFacts
<1> HIDE DEF g
<1>8. slow'.pc = "dex" /\ slow'.job = "history" /\ SlowHand' = TokensOf(Open(cs))
  BY <1>0 DEF SlowIdle, SlowHand
<1>9. ASSUME NEW t \in TokensOf(Open(cs))
      PROVE  \E l \in Launch : l.token = t /\ l.block < Edge
  <2>1. PICK c \in g : c.token = t
    BY DEF TokensOf, Open
  <2>2. PICK l \in Launch : l.token = t /\ l.block <= saved.slow
    BY <1>7, <2>1
  <2>3. l.block < Edge
    BY <1>1, <1>6, <2>2, TokensAndBlocks, ConstantTypes DEF FilesInv
  <2>4. QED
    BY <2>2, <2>3
<1>10. ASSUME NEW l \in Launch, ~HasCurve(l.token), l.token \in Sampled,
              SlowLow <= l.block, l.block <= saved.slow
       PROVE  l.token \in Done \cup TokensOf(Open(cs))
  <2>1. CASE l.token \in quotes
    BY <1>1, <2>1, TokensAndBlocks DEF FilesInv, Done, Accounted, HasOutcome
  <2>2. CASE l.token \notin quotes
    <3>1. PICK c \in g : c.token = l.token
      BY <1>7, <1>10, <2>2
    <3>2. ~c.curve
      BY <1>7, <1>10, <3>1 DEF HasCurve
    <3>3. c \in cs /\ cs \in SUBSET Candidate
      BY <1>7, <1>10, <3>1, <3>2
    <3>4. c.token \in Done \cup TokensOf(Open(cs))
      BY <1>1, <3>3, OpenDone DEF FilesInv
    <3>5. QED
      BY <3>1, <3>4
  <2>3. QED
    BY <2>1, <2>2
<1>11. SlowInv'
  BY <1>2, <1>3, <1>6, <1>8, <1>9, <1>10 DEF SlowInv
<1>12. QED
  BY <1>4, <1>5, <1>11 DEF IInv

LEMMA QueueStartInv ==
  ASSUME IInv, TypeOK', QueueStart
  PROVE  IInv'
<1> DEFINE n == Lower(SlowBatch, Len(slowLive))
           b == {slowLive[i] : i \in 1..n}
           cs == {c \in b : ~c.curve}
<1>0. slow' = [SlowIdle EXCEPT !.pc = "dex", !.job = "queue", !.size = n, !.todo = TokensOf(Open(cs))]
  BY DEF QueueStart, DexOpen
<1>1. /\ TypeOK /\ FilesInv /\ BackfillInv /\ SlowInv /\ FollowInv /\ LiveInv
      /\ \A t \in live.naming : status[t] \notin Labels
  BY DEF IInv, LiveInv
<1>2. /\ status' = status /\ rejected' = rejected /\ quotes' = quotes /\ dropped' = dropped
      /\ lost' = lost /\ abandoned' = abandoned /\ pons' = pons /\ live' = live /\ saved' = saved
      /\ young' = young /\ slowLive' = slowLive /\ scannedTo' = scannedTo
  BY DEF QueueStart, memory, window, files, history
<1>3. Done \subseteq Done' /\ Kept \subseteq Kept'
  BY <1>1, <1>2, DoneGrows
<1>4. FilesInv'
  <2>1. quotes' \subseteq dropped' /\ scannedTo <= scannedTo' /\ rejected \subseteq rejected' /\ saved' = saved
    BY <1>1, <1>2 DEF FilesInv, TypeOK
  <2>2. QED
    BY <1>1, <1>3, <2>1, FilesKeeps
<1>5. BackfillInv' /\ FollowInv' /\ LiveInv'
  BY <1>1, <1>2, <1>3, BackfillKeeps, FollowKeeps, LiveKeeps
<1>6. n \in Nat /\ n <= Len(slowLive)
  BY <1>1, QueueType, ConstantTypes DEF Lower
<1>7. \A i \in 1..n : slowLive[i] \in Candidate /\ slowLive[i] \in QueueSet
  BY <1>1, <1>6, QueueType DEF QueueSet
<1> HIDE DEF n
<1>8. slow'.pc = "dex" /\ slow'.job = "queue" /\ slow'.size = n /\ SlowHand' = TokensOf(Open(cs))
  BY <1>0 DEF SlowIdle, SlowHand
<1>9. ASSUME NEW t \in TokensOf(Open(cs))
      PROVE  \E i \in 1..n : slowLive[i].token = t
  BY DEF TokensOf, Open
<1>10. ASSUME NEW i \in 1..n
       PROVE  slowLive[i].token \in Done \cup TokensOf(Open(cs))
  <2>1. slowLive[i] \in cs /\ cs \in SUBSET Candidate
    BY <1>1, <1>7 DEF FollowInv
  <2>2. QED
    BY <1>1, <2>1, OpenDone DEF FilesInv
<1>11. SlowInv'
  BY <1>2, <1>3, <1>6, <1>8, <1>9, <1>10 DEF SlowInv
<1>12. QED
  BY <1>4, <1>5, <1>11 DEF IInv

LEMMA SlowDoneInv ==
  ASSUME IInv, TypeOK', SlowDone
  PROVE  IInv'
<1>1. /\ TypeOK /\ FilesInv /\ BackfillInv /\ SlowInv /\ FollowInv /\ LiveInv
      /\ \A t \in live.naming : status[t] \notin Labels
  BY DEF IInv, LiveInv
<1>2. /\ slow.pc = "dex" /\ slow.job = "history" /\ slow.looking = {} /\ slow.naming = {}
      /\ slow' = SlowIdle /\ abandoned' = abandoned \cup slow.todo
      /\ saved' = [saved EXCEPT !.slow = SlowLow - 1, !.rejected = rejected]
      /\ status' = status /\ rejected' = rejected /\ quotes' = quotes /\ dropped' = dropped
      /\ lost' = lost /\ pons' = pons /\ live' = live
      /\ young' = young /\ slowLive' = slowLive /\ scannedTo' = scannedTo
  BY DEF SlowDone, DexReturns, Save, memory, window
<1>3. /\ saved'.slow = SlowLow - 1 /\ saved'.rejected = rejected
      /\ saved'.backfill = saved.backfill /\ saved'.live = saved.live
  BY <1>1, <1>2 DEF TypeOK
<1>4. Done \subseteq Done' /\ Kept \subseteq Kept'
  BY <1>1, <1>2, <1>3, DoneGrows DEF FilesInv
<1>5. SlowHand \subseteq Done' /\ Done' \subseteq Kept'
  BY <1>1, <1>2, <1>3 DEF TypeOK, SlowHand, Done, Kept, Accounted, HasOutcome
<1>6. /\ SlowLow \in Int /\ saved.slow \in Int
      /\ Oldest - 1 <= SlowLow - 1 /\ SlowLow - 1 < Edge
  <2>1. saved.slow \in Int /\ saved.slow < Edge
    BY <1>1 DEF TypeOK, FilesInv
  <2>2. SlowLow <= saved.slow \/ SlowLow = Oldest
    BY <2>1, ConstantTypes DEF SlowLow, Higher
  <2>3. QED
    BY <1>1, <2>1, <2>2, ChunkTypes, ConstantTypes
<1>7. \A l \in PastOthers' : l.token \in Kept'
  <2>1. ASSUME NEW l \in Launch, ~HasCurve(l.token), l.token \in Sampled, SlowLow - 1 < l.block, l.block < Edge
        PROVE  l.token \in Kept'
    <3>1. CASE l.block <= saved.slow
      <4>1. SlowLow <= l.block
        BY <1>6, <2>1, TokensAndBlocks
      <4>2. l.token \in Done \cup SlowHand
        BY <1>1, <1>2, <2>1, <3>1, <4>1 DEF SlowInv
      <4>3. QED
        BY <1>4, <1>5, <4>2
    <3>2. CASE saved.slow < l.block
      BY <1>1, <1>4, <2>1, <3>2 DEF FilesInv, PastOthers
    <3>3. QED
      BY <1>6, <3>1, <3>2, TokensAndBlocks
  <2>2. QED
    BY <1>3, <2>1 DEF PastOthers
<1>8. \A l \in PastCurves' \cup PastLive' : l.token \in Kept'
  BY <1>1, <1>3, <1>4 DEF FilesInv, PastCurves, PastLive
<1>9. FilesInv'
  BY <1>1, <1>2, <1>3, <1>6, <1>7, <1>8 DEF FilesInv
<1>10. SlowInv'
  BY <1>2 DEF SlowInv, SlowHand, SlowIdle
<1>11. BackfillInv' /\ FollowInv' /\ LiveInv'
  BY <1>1, <1>2, <1>3, <1>4, BackfillKeeps, FollowKeeps, LiveKeeps
<1>12. QED
  BY <1>9, <1>10, <1>11 DEF IInv

LEMMA QueueDoneInv ==
  ASSUME IInv, TypeOK', QueueDone
  PROVE  IInv'
<1>1. /\ TypeOK /\ FilesInv /\ BackfillInv /\ SlowInv /\ FollowInv /\ LiveInv
      /\ \A t \in live.naming : status[t] \notin Labels
  BY DEF IInv, LiveInv
<1>2. /\ slow.pc = "dex" /\ slow.job = "queue" /\ slow.looking = {} /\ slow.naming = {}
      /\ slow' = SlowIdle /\ abandoned' = abandoned \cup slow.todo
      /\ slowLive' = SubSeq(slowLive, slow.size + 1, Len(slowLive))
      /\ status' = status /\ rejected' = rejected /\ quotes' = quotes /\ dropped' = dropped
      /\ lost' = lost /\ pons' = pons /\ live' = live /\ saved' = saved
      /\ young' = young /\ scannedTo' = scannedTo
  BY DEF QueueDone, Spliced, DexReturns, memory, files
<1>3. Done \subseteq Done' /\ Kept \subseteq Kept'
  BY <1>1, <1>2, DoneGrows
<1>4. FilesInv'
  BY <1>1, <1>2, <1>3, FilesKeeps, SMTT(30) DEF FilesInv, TypeOK
<1>5. SlowInv'
  BY <1>2 DEF SlowInv, SlowHand, SlowIdle
<1>6. BackfillInv' /\ LiveInv'
  BY <1>1, <1>2, <1>3, BackfillKeeps, LiveKeeps
<1>7. /\ slow.size \in Nat /\ Len(slowLive) \in Nat /\ slow.size <= Len(slowLive)
      /\ SlowHand \subseteq Done'
  BY <1>1, <1>2, QueueType DEF TypeOK, SlowInv, SlowHand, Done, Accounted, HasOutcome
<1>8. /\ Len(slowLive') = Len(slowLive) - slow.size
      /\ \A i \in 1..(Len(slowLive) - slow.size) : slowLive'[i] = slowLive[slow.size + i]
  <2>1. \A i \in (slow.size + 1)..Len(slowLive) : slowLive[i] \in Candidate
    BY <1>1, <1>7, QueueType
  <2>2. QED
    BY <1>2, <1>7, <2>1, SubSeqProperties, SMTT(30)
<1>9. QueueSet = {slowLive[i] : i \in 1..Len(slowLive)} /\ QueueSet' = {slowLive'[i] : i \in 1..Len(slowLive')}
  <2>1. DOMAIN slowLive = 1..Len(slowLive)
    BY <1>1, QueueType
  <2>2. DOMAIN slowLive' = 1..Len(slowLive')
    BY LenProperties DEF TypeOK
  <2>3. QED
    BY <2>1, <2>2 DEF QueueSet
<1>10. QueueSet' \subseteq QueueSet
  BY <1>7, <1>8, <1>9, SMTT(30)
<1>11. \A c \in QueueSet : c \in QueueSet' \/ c.token \in Done'
  <2>1. ASSUME NEW i \in 1..Len(slowLive), i <= slow.size
        PROVE  slowLive[i].token \in Done'
    BY <1>1, <1>2, <1>3, <1>7, <2>1 DEF SlowInv
  <2>2. ASSUME NEW i \in 1..Len(slowLive), slow.size < i
        PROVE  slowLive[i] \in QueueSet'
    <3>1. i - slow.size \in 1..Len(slowLive') /\ slow.size + (i - slow.size) = i
      BY <1>7, <1>8, <2>2
    <3>2. slowLive'[i - slow.size] = slowLive[i]
      BY <1>8, <3>1
    <3>3. QED
      BY <1>9, <3>1, <3>2
  <2>3. QED
    BY <1>7, <1>9, <2>1, <2>2
<1>12. FollowInv'
  BY <1>1, <1>2, <1>3, <1>10, <1>11 DEF FollowInv, Followed
<1>13. QED
  BY <1>4, <1>5, <1>6, <1>12 DEF IInv

LEMMA SlowFailInv ==
  ASSUME IInv, TypeOK', SlowFail
  PROVE  IInv'
<1>1. /\ TypeOK /\ FilesInv /\ BackfillInv /\ SlowInv /\ FollowInv /\ LiveInv
      /\ \A t \in live.naming : status[t] \notin Labels
  BY DEF IInv, LiveInv
<1>2. /\ status' = status /\ rejected' = rejected /\ quotes' = quotes /\ dropped' = dropped
      /\ lost' = lost /\ abandoned' = abandoned /\ pons' = pons /\ live' = live /\ saved' = saved
      /\ young' = young /\ slowLive' = slowLive /\ scannedTo' = scannedTo /\ slow' = SlowIdle
  BY DEF SlowFail, memory, window, files, history
<1>3. Done \subseteq Done' /\ Kept \subseteq Kept'
  BY <1>1, <1>2, DoneGrows
<1>4. FilesInv'
  BY <1>1, <1>2, <1>3, FilesKeeps DEF FilesInv, TypeOK
<1>5. BackfillInv' /\ FollowInv' /\ LiveInv'
  BY <1>1, <1>2, <1>3, BackfillKeeps, FollowKeeps, LiveKeeps
<1>6. SlowInv'
  BY <1>2 DEF SlowInv, SlowHand, SlowIdle
<1>7. QED
  BY <1>4, <1>5, <1>6 DEF IInv

LEMMA LiveScanInv ==
  ASSUME IInv, TypeOK', LiveScan
  PROVE  IInv'
<1> DEFINE g == Group(scannedTo + 1, clock)
<1>0. young' = young \cup {c \in g : c.token \notin TokensOf(young)}
  BY DEF LiveScan, NewLaunches
<1>1. /\ TypeOK /\ FilesInv /\ BackfillInv /\ SlowInv /\ FollowInv /\ LiveInv
      /\ scannedTo \in Int /\ clock \in Nat /\ saved.live \in Int
  BY DEF IInv, TypeOK
<1>2. /\ status' = status /\ rejected' = rejected /\ quotes' = quotes /\ dropped' = dropped
      /\ lost' = lost /\ abandoned' = abandoned /\ pons' = pons /\ slow' = slow /\ saved' = saved
      /\ slowLive' = slowLive /\ scannedTo' = Higher(scannedTo, clock)
      /\ live.pc = "idle" /\ live' = [LiveIdle EXCEPT !.pc = "scanned"]
  BY DEF LiveScan, memory, files, history
<1>3. Done \subseteq Done' /\ Kept \subseteq Kept'
  BY <1>1, <1>2, DoneGrows
<1>4. /\ scannedTo' \in Int /\ scannedTo <= scannedTo'
      /\ clock <= scannedTo' /\ (scannedTo' = scannedTo \/ scannedTo' = clock)
  BY <1>1, <1>2 DEF Higher
<1>5. FilesInv'
  <2>1. quotes' \subseteq dropped' /\ rejected \subseteq rejected'
    BY <1>1, <1>2 DEF FilesInv
  <2>2. QED
    BY <1>1, <1>2, <1>3, <1>4, <2>1, FilesKeeps
<1>6. BackfillInv' /\ SlowInv'
  BY <1>1, <1>2, <1>3, BackfillKeeps, SlowKeeps, QueueType
<1>7. /\ g \subseteq Candidate
      /\ \A l \in Launch : scannedTo + 1 <= l.block /\ l.block <= clock =>
           l.token \in quotes \/ \E c \in g : c.token = l.token /\ c.first <= l.block
      /\ \A c \in g : /\ scannedTo + 1 <= c.first /\ c.first <= clock
                      /\ \E l \in Launch : l.token = c.token /\ l.block = c.first
                      /\ c.curve => \E l \in Launch : /\ l.token = c.token /\ l.curve
                                                      /\ scannedTo + 1 <= l.block
      /\ \A c, d \in g : c.token = d.token => c = d
  <2>1. scannedTo + 1 \in Int /\ clock \in Int
    BY <1>1
  <2>2. QED
    BY <2>1, GroupFacts
<1> HIDE DEF g
<1>8. /\ QueueSet' = QueueSet /\ young \subseteq young' /\ Followed \subseteq Followed'
      /\ \A c \in young' : c \in young \/ (c \in g /\ c.token \notin TokensOf(young))
  BY <1>0, <1>2 DEF QueueSet, Followed
<1>9. \A c \in g : c.first \in Nat /\ saved.live < c.first /\ c.first <= scannedTo'
  <2>1. \A c \in g : c.first \in Nat
    BY <1>7, TokensAndBlocks DEF Candidate
  <2>2. saved.live <= scannedTo
    BY <1>1 DEF FilesInv
  <2>3. QED
    BY <1>1, <1>4, <1>7, <2>1, <2>2
<1>10. ASSUME NEW l \in Launch, Edge <= l.block, l.block <= scannedTo'
       PROVE  l.token \in Done' \/ \E c \in Followed' : c.token = l.token /\ c.first <= l.block
  <2>1. CASE l.block <= scannedTo
    BY <1>1, <1>3, <1>8, <1>10, <2>1 DEF FollowInv
  <2>2. CASE scannedTo < l.block
    <3>1. scannedTo + 1 <= l.block /\ l.block <= clock
      BY <1>1, <1>4, <1>10, <2>2, TokensAndBlocks
    <3>2. CASE l.token \in quotes
      BY <1>1, <1>3, <3>2, TokensAndBlocks DEF FilesInv, Done, Accounted, HasOutcome
    <3>3. CASE l.token \notin quotes
      <4>1. PICK c \in g : c.token = l.token /\ c.first <= l.block
        BY <1>7, <3>1, <3>3
      <4>2. CASE c.token \in TokensOf(young)
        <5>1. PICK d \in young : d.token = l.token
          BY <4>1, <4>2 DEF TokensOf
        <5>2. d.first <= scannedTo /\ d.first \in Nat
          BY <1>1, TokensAndBlocks DEF FollowInv, Followed, TypeOK, Candidate
        <5>3. d.first <= l.block
          BY <1>1, <2>2, <5>2, TokensAndBlocks
        <5>4. QED
          BY <1>8, <5>1, <5>3 DEF Followed
      <4>3. CASE c.token \notin TokensOf(young)
        BY <1>0, <4>1, <4>3 DEF Followed
      <4>4. QED
        BY <4>2, <4>3
    <3>4. QED
      BY <3>2, <3>3
  <2>3. QED
    BY <1>1, <2>1, <2>2, TokensAndBlocks
<1>11. ASSUME NEW c \in Followed'
       PROVE  /\ saved'.live < c.first /\ c.first <= scannedTo'
              /\ \E l \in Launch : l.token = c.token /\ l.block = c.first
  <2>1. CASE c \in Followed
    <3>1. c.first \in Nat /\ c.first <= scannedTo /\ saved.live < c.first
      BY <1>1, <2>1, QueueType, TokensAndBlocks DEF FollowInv, Followed, TypeOK, Candidate
    <3>2. c.first <= scannedTo'
      BY <1>1, <1>4, <3>1
    <3>3. QED
      BY <1>1, <1>2, <2>1, <3>1, <3>2 DEF FollowInv
  <2>2. CASE c \in g
    BY <1>2, <1>7, <1>9, <2>2
  <2>3. QED
    BY <1>8, <2>1, <2>2 DEF Followed
<1>12. ASSUME NEW c \in young', c.curve
       PROVE  \E l \in Launch : l.token = c.token /\ l.curve /\ Edge <= l.block
  <2>1. CASE c \in young
    BY <1>1, <1>12, <2>1 DEF FollowInv
  <2>2. CASE c \in g
    <3>1. PICK l \in Launch : l.token = c.token /\ l.curve /\ scannedTo + 1 <= l.block
      BY <1>7, <1>12, <2>2
    <3>2. Edge - 1 <= saved.live /\ saved.live <= scannedTo
      BY <1>1 DEF FilesInv
    <3>3. Edge <= l.block
      BY <1>1, <3>1, <3>2, TokensAndBlocks, ConstantTypes
    <3>4. QED
      BY <3>1, <3>3
  <2>3. QED
    BY <1>8, <2>1, <2>2
<1>13. \A c, d \in young' : c.token = d.token => c = d
  BY <1>1, <1>7, <1>8 DEF FollowInv, TokensOf
<1>14. ASSUME NEW c \in young', NEW d \in QueueSet, c.curve, c.token = d.token
       PROVE  FALSE
  <2>1. c \in g
    BY <1>1, <1>8, <1>14 DEF FollowInv
  <2>2. PICK k \in Launch : k.token = c.token /\ k.curve /\ scannedTo + 1 <= k.block
    BY <1>7, <1>14, <2>1
  <2>3. PICK l \in Launch : l.token = d.token /\ l.block = d.first /\ d.first <= scannedTo
    BY <1>1 DEF FollowInv, Followed
  <2>4. l.block < k.block
    BY <1>1, <2>2, <2>3, TokensAndBlocks
  <2>5. l # k
    BY <2>4, TokensAndBlocks
  <2>6. k.block <= l.block
    BY <1>14, <2>2, <2>3, <2>5, CurveComesFirst
  <2>7. QED
    BY <2>4, <2>6, TokensAndBlocks
<1>15. FollowInv'
  BY <1>1, <1>8, <1>10, <1>11, <1>12, <1>13, <1>14 DEF FollowInv
<1>16. LiveInv'
  <2>1. live'.pc = "scanned" /\ live'.matured = {} /\ live'.naming = {}
    BY <1>2 DEF LiveIdle
  <2>2. QED
    BY <1>1, <1>2, <2>1 DEF LiveInv, LiveHand
<1>17. QED
  BY <1>5, <1>6, <1>15, <1>16 DEF IInv

LEMMA LiveMatureInv ==
  ASSUME IInv, TypeOK', LiveMature
  PROVE  IInv'
<1> USE DEF PonsLoops
<1>1. /\ TypeOK /\ FilesInv /\ BackfillInv /\ SlowInv /\ FollowInv /\ LiveInv
      /\ pons \in [PonsLoops -> PonsRecord] /\ live \in LiveRecord
  BY DEF IInv, TypeOK, PonsRecord, LiveRecord
<1>2. /\ status' = status /\ rejected' = rejected /\ quotes' = quotes /\ dropped' = dropped
      /\ lost' = lost /\ abandoned' = abandoned /\ slow' = slow /\ saved' = saved
      /\ young' = young /\ slowLive' = slowLive /\ scannedTo' = scannedTo
      /\ live.pc = "scanned"
  BY DEF LiveMature, memory, window, files, history
<1>3. Done \subseteq Done' /\ Kept \subseteq Kept'
  BY <1>1, <1>2, DoneGrows
<1>4. FilesInv'
  BY <1>1, <1>2, <1>3, FilesKeeps, SMTT(30) DEF FilesInv, TypeOK
<1>5. PICK m \in SUBSET young :
        /\ live' = [live EXCEPT !.pc = IF m = {} THEN "trades" ELSE "label",
                                !.now = clock, !.matured = m]
        /\ IF m = {} THEN UNCHANGED pons ELSE PonsOpen("live", m)
  BY DEF LiveMature
<1>6. /\ live'.matured = m /\ live'.naming = {} /\ live'.pc = IF m = {} THEN "trades" ELSE "label"
  BY <1>1, <1>2, <1>5 DEF LiveInv, LiveRecord
<1>7. SlowInv' /\ FollowInv'
  BY <1>1, <1>2, <1>3, SlowKeeps, FollowKeeps, QueueType
<1>8. CASE m = {}
  <2>1. pons' = pons
    BY <1>5, <1>8
  <2>2. BackfillInv'
    BY <1>1, <1>2, <1>3, <2>1, BackfillKeeps
  <2>3. LiveInv'
    BY <1>1, <1>2, <1>6, <1>8, <2>1 DEF LiveInv, LiveHand
  <2>4. QED
    BY <1>4, <1>7, <2>2, <2>3 DEF IInv
<1>9. CASE m # {}
  <2> DEFINE cs == {c \in m : c.curve}
  <2>1. pons' = [pons EXCEPT !["live"] = [Idle EXCEPT !.pc = "judge", !.todo = TokensOf(Open(cs))]]
    BY <1>5, <1>9 DEF PonsOpen
  <2>2. pons'["backfill"] = pons["backfill"]
    BY <1>1, <2>1
  <2>3. pons'["live"].pc = "judge" /\ LiveHand' = TokensOf(Open(cs))
    BY <1>1, <2>1 DEF Idle, LiveHand, Hand
  <2>4. BackfillInv'
    BY <1>1, <1>2, <1>3, <2>2, BackfillKeeps
  <2>5. \A t \in TokensOf(Open(cs)) : \E c \in m : c.curve /\ c.token = t
    BY DEF TokensOf, Open
  <2>6. ASSUME NEW c \in m, c.curve
        PROVE  c.token \in Done \cup TokensOf(Open(cs))
    <3>1. c \in cs /\ cs \in SUBSET Candidate
      BY <1>1, <2>6 DEF TypeOK
    <3>2. QED
      BY <1>1, <3>1, OpenDone DEF FilesInv
  <2> HIDE DEF cs
  <2>7. LiveInv'
    BY <1>2, <1>3, <1>6, <1>9, <2>3, <2>5, <2>6 DEF LiveInv
  <2>8. QED
    BY <1>4, <1>7, <2>4, <2>7 DEF IInv
<1>10. QED
  BY <1>8, <1>9

LEMMA LiveMaturedInv ==
  ASSUME IInv, TypeOK', LiveMatured
  PROVE  IInv'
<1> USE DEF PonsLoops
<1>1. /\ TypeOK /\ FilesInv /\ BackfillInv /\ SlowInv /\ FollowInv /\ LiveInv
      /\ pons \in [PonsLoops -> PonsRecord] /\ live \in LiveRecord
  BY DEF IInv, TypeOK, PonsRecord, LiveRecord
<1>2. /\ status' = status /\ rejected' = rejected /\ quotes' = quotes /\ dropped' = dropped
      /\ lost' = lost /\ abandoned' = abandoned \cup pons["live"].priced
      /\ slow' = slow /\ saved' = saved /\ scannedTo' = scannedTo
      /\ pons' = [pons EXCEPT !["live"] = Idle]
      /\ pons["live"].pc = "finish" /\ pons["live"].naming = {}
      /\ live.pc = "label" /\ live' = [live EXCEPT !.pc = "trades", !.matured = {}]
      /\ young' = {c \in young : c.token \notin TokensOf(live.matured)}
  BY DEF LiveMatured, PonsReturns, memory, files
<1>3. PICK q \in Orderings({c \in live.matured : ~c.curve}) : slowLive' = slowLive \o q
  BY DEF LiveMatured, Pushed
<1>4. Done \subseteq Done' /\ Kept \subseteq Kept'
  BY <1>1, <1>2, DoneGrows
<1>5. FilesInv'
  BY <1>1, <1>2, <1>4, FilesKeeps, SMTT(30) DEF FilesInv, TypeOK
<1>6. pons'["live"] = Idle /\ pons'["backfill"] = pons["backfill"]
  BY <1>1, <1>2
<1>7. BackfillInv'
  BY <1>1, <1>2, <1>4, <1>6, BackfillKeeps
<1>8. /\ q \in Seq(Candidate) /\ Len(q) \in Nat /\ slowLive \in Seq(Candidate) /\ Len(slowLive) \in Nat
      /\ {q[i] : i \in 1..Len(q)} = {c \in live.matured : ~c.curve}
  <2>1. {c \in live.matured : ~c.curve} \in SUBSET Candidate
    BY <1>1 DEF LiveRecord
  <2>2. QED
    BY <1>1, <2>1, OrderingFacts, QueueType DEF TypeOK
<1>9. /\ Len(slowLive') = Len(slowLive) + Len(q)
      /\ \A i \in 1..(Len(slowLive) + Len(q)) :
            slowLive'[i] = IF i <= Len(slowLive) THEN slowLive[i] ELSE q[i - Len(slowLive)]
  BY <1>3, <1>8, ConcatProperties
<1>10. SlowInv'
  BY <1>1, <1>2, <1>4, <1>8, <1>9, SlowKeeps
<1>11. QueueSet = {slowLive[i] : i \in 1..Len(slowLive)} /\ QueueSet' = {slowLive'[i] : i \in 1..Len(slowLive')}
  <2>1. DOMAIN slowLive = 1..Len(slowLive)
    BY <1>1, QueueType
  <2>2. DOMAIN slowLive' = 1..Len(slowLive')
    BY LenProperties DEF TypeOK
  <2>3. QED
    BY <2>1, <2>2 DEF QueueSet
<1>12. QueueSet' = QueueSet \cup {c \in live.matured : ~c.curve}
  <2>1. \A i \in 1..Len(slowLive) : slowLive'[i] = slowLive[i] /\ i \in 1..Len(slowLive')
    BY <1>8, <1>9
  <2>2. \A i \in 1..Len(q) : /\ slowLive'[Len(slowLive) + i] = q[i]
                             /\ Len(slowLive) + i \in 1..Len(slowLive')
    BY <1>8, <1>9
  <2>3. \A i \in 1..Len(slowLive') : \/ i \in 1..Len(slowLive) /\ slowLive'[i] = slowLive[i]
                                     \/ i - Len(slowLive) \in 1..Len(q) /\ slowLive'[i] = q[i - Len(slowLive)]
    BY <1>8, <1>9
  <2>4. \A c \in QueueSet' : c \in QueueSet \/ c \in {q[i] : i \in 1..Len(q)}
    BY <1>11, <2>3
  <2>5. QueueSet \subseteq QueueSet' /\ {q[i] : i \in 1..Len(q)} \subseteq QueueSet'
    BY <1>11, <2>1, <2>2
  <2>6. QED
    BY <1>8, <2>4, <2>5
<1>13. \A c \in live.matured : c.curve => c.token \in Done'
  <2>1. \A t \in LiveHand : t \in Done'
    BY <1>1, <1>2 DEF LiveInv, LiveHand, Hand, PonsRecord, Done, Accounted, HasOutcome
  <2>2. QED
    BY <1>1, <1>2, <1>4, <2>1 DEF LiveInv
<1>14. \A c \in Followed : c \in Followed' \/ c.token \in Done'
  <2>1. ASSUME NEW c \in young
        PROVE  c \in Followed' \/ c.token \in Done'
    <3>1. CASE c.token \in TokensOf(live.matured)
      <4>1. PICK d \in live.matured : d.token = c.token
        BY <3>1 DEF TokensOf
      <4>2. c \in live.matured
        BY <1>1, <4>1 DEF LiveInv, FollowInv
      <4>3. QED
        BY <1>12, <1>13, <4>2 DEF Followed
    <3>2. CASE c.token \notin TokensOf(live.matured)
      BY <1>2, <3>2 DEF Followed
    <3>3. QED
      BY <3>1, <3>2
  <2>2. QED
    BY <1>12, <2>1 DEF Followed
<1>15. Followed' \subseteq Followed /\ young' \subseteq young
  BY <1>1, <1>2, <1>12 DEF Followed, LiveInv
<1>16. \A c \in young', d \in live.matured : c.token # d.token
  BY <1>2 DEF TokensOf
<1>17. FollowInv'
  <2>1. \A l \in Launch : Edge <= l.block /\ l.block <= scannedTo' =>
          l.token \in Done' \/ \E c \in Followed' : c.token = l.token /\ c.first <= l.block
    BY <1>1, <1>2, <1>4, <1>14 DEF FollowInv
  <2>2. QED
    BY <1>1, <1>2, <1>12, <1>15, <1>16, <2>1 DEF FollowInv
<1>18. LiveInv'
  <2>1. live'.pc = "trades" /\ live'.matured = {} /\ live'.naming = {}
    BY <1>1, <1>2 DEF LiveInv, LiveRecord
  <2>2. QED
    BY <1>6, <2>1 DEF LiveInv, LiveHand, Hand, Idle
<1>19. QED
  BY <1>5, <1>7, <1>10, <1>17, <1>18 DEF IInv

(* The steps of the tick that only touch the watch list.                   *)
LEMMA LiveWatchInv ==
  ASSUME IInv, TypeOK',
         LiveDropStale \/ (\E c \in young : LiveNameCurve(c)) \/ (\E t \in Tokens : LiveShowCurve(t))
  PROVE  IInv' /\ \A u \in Tokens : status[u] \in Labels => status'[u] \in Labels
<1>1. /\ TypeOK /\ FilesInv /\ BackfillInv /\ SlowInv /\ FollowInv /\ LiveInv /\ live \in LiveRecord
  BY DEF IInv, TypeOK, LiveRecord
<1>2. /\ rejected' = rejected /\ quotes' = quotes /\ dropped' = dropped
      /\ lost' = lost /\ abandoned' = abandoned /\ slow' = slow /\ saved' = saved /\ pons' = pons
      /\ young' = young /\ slowLive' = slowLive /\ scannedTo' = scannedTo
  BY DEF LiveDropStale, LiveNameCurve, LiveShowCurve, memory, window, files, history
<1>3. /\ \A u \in Tokens : status[u] \in Labels => status'[u] \in Labels
      /\ \A u \in Tokens : status'[u] \in Labels => status[u] \in Labels
  <2>1. CASE LiveDropStale
    BY <1>1, <2>1 DEF LiveDropStale, Stale, TypeOK, Labels
  <2>2. CASE \E c \in young : LiveNameCurve(c)
    BY <2>2 DEF LiveNameCurve, memory
  <2>3. ASSUME NEW t \in Tokens, LiveShowCurve(t)
        PROVE  /\ \A u \in Tokens : status[u] \in Labels => status'[u] \in Labels
               /\ \A u \in Tokens : status'[u] \in Labels => status[u] \in Labels
    BY <1>1, <2>3, SMTT(30) DEF LiveShowCurve, LiveInv, TypeOK, Labels
  <2>4. QED
    BY <2>1, <2>2, <2>3
<1>4. Done \subseteq Done' /\ Kept \subseteq Kept'
  BY <1>1, <1>2, <1>3, DoneGrows
<1>5. FilesInv'
  BY <1>1, <1>2, <1>4, FilesKeeps DEF FilesInv, TypeOK
<1>6. BackfillInv' /\ SlowInv' /\ FollowInv'
  BY <1>1, <1>2, <1>4, BackfillKeeps, SlowKeeps, FollowKeeps, QueueType
<1>7. /\ live'.matured = live.matured /\ live.pc \notin {"idle", "label", "scanned"}
      /\ live'.pc = "watch"
      /\ \A t \in live'.naming : status'[t] \notin Labels /\ \E c \in young : c.curve /\ c.token = t
  <2>1. CASE LiveDropStale
    BY <1>1, <1>3, <2>1 DEF LiveDropStale, LiveInv, LiveRecord
  <2>2. ASSUME NEW c \in young, LiveNameCurve(c)
        PROVE  /\ live'.matured = live.matured /\ live.pc = "watch" /\ live'.pc = "watch"
               /\ live'.naming = {c.token} /\ status'[c.token] \notin Labels /\ c.curve
    BY <1>1, <2>2 DEF LiveNameCurve, LiveRecord, memory, Labels
  <2>3. ASSUME NEW t \in Tokens, LiveShowCurve(t)
        PROVE  /\ live'.matured = live.matured /\ live.pc = "watch" /\ live'.pc = "watch"
               /\ live'.naming \subseteq live.naming
    BY <1>1, <2>3 DEF LiveShowCurve, LiveInv, LiveRecord
  <2>4. \A t \in live.naming : /\ t \in Tokens /\ status'[t] \notin Labels
                               /\ \E c \in young : c.curve /\ c.token = t
    BY <1>1, <1>3 DEF LiveInv, LiveRecord
  <2>5. QED
    BY <2>1, <2>2, <2>3, <2>4
<1>8. LiveInv'
  BY <1>1, <1>2, <1>4, <1>7 DEF LiveInv, LiveHand
<1>9. QED
  BY <1>3, <1>5, <1>6, <1>8 DEF IInv

LEMMA LiveSaveInv ==
  ASSUME IInv, TypeOK', LiveSave
  PROVE  /\ IInv' /\ saved.live <= saved'.live
         /\ \A u \in Tokens : status[u] \in Labels => status'[u] \in Labels
<1>1. /\ TypeOK /\ FilesInv /\ BackfillInv /\ SlowInv /\ FollowInv /\ LiveInv
      /\ saved.live \in Int /\ scannedTo \in Int
  BY DEF IInv, TypeOK
<1>2. /\ rejected' = rejected /\ quotes' = quotes /\ dropped' = dropped
      /\ lost' = lost /\ abandoned' = abandoned /\ slow' = slow /\ pons' = pons
      /\ young' = young /\ slowLive' = slowLive /\ scannedTo' = scannedTo
      /\ live.pc = "watch" /\ live' = LiveIdle
      /\ saved' = [saved EXCEPT !.live = LiveFrom, !.rejected = rejected]
  BY DEF LiveSave, Save, window, history
<1>3. \A u \in Tokens : status[u] \in Labels => status'[u] \in Labels
  BY <1>1 DEF LiveSave, TypeOK, Labels
<1>4. /\ saved'.live = LiveFrom /\ saved'.rejected = rejected
      /\ saved'.backfill = saved.backfill /\ saved'.slow = saved.slow
  BY <1>1, <1>2 DEF TypeOK
<1>5. Done \subseteq Done' /\ Kept \subseteq Kept'
  BY <1>1, <1>2, <1>3, <1>4, DoneGrows DEF FilesInv
<1>6. Done' \subseteq Kept'
  BY <1>2, <1>4 DEF Done, Kept, Accounted, HasOutcome
<1>7. /\ LiveFrom \in Int /\ \A c \in Followed : LiveFrom < c.first
      /\ (LiveFrom = scannedTo \/ \E c \in Followed : LiveFrom = c.first - 1)
  BY <1>1, LiveFromFacts DEF Followed
<1>8. \A c \in Followed : c.first \in Nat /\ saved.live < c.first /\ c.first <= scannedTo
  BY <1>1, QueueType, TokensAndBlocks, SMTT(30) DEF FollowInv, Followed, TypeOK, Candidate
<1>9. saved.live <= LiveFrom /\ LiveFrom <= scannedTo
  <2>1. saved.live <= scannedTo
    BY <1>1 DEF FilesInv
  <2>2. QED
    BY <1>1, <1>7, <1>8, <2>1
<1>10. \A l \in PastLive' : l.token \in Kept'
  <2>1. ASSUME NEW l \in Launch, Edge <= l.block, l.block <= LiveFrom
        PROVE  l.token \in Kept'
    <3>1. l.block <= scannedTo
      BY <1>1, <1>7, <1>9, <2>1, TokensAndBlocks
    <3>2. l.token \in Done \/ \E c \in Followed : c.token = l.token /\ c.first <= l.block
      BY <1>1, <2>1, <3>1 DEF FollowInv
    <3>3. ~ \E c \in Followed : c.first <= l.block
      BY <1>7, <1>8, <2>1, TokensAndBlocks
    <3>4. QED
      BY <1>5, <1>6, <3>2, <3>3
  <2>2. QED
    BY <1>4, <2>1 DEF PastLive
<1>11. \A l \in PastCurves' \cup PastOthers' : l.token \in Kept'
  BY <1>1, <1>4, <1>5 DEF FilesInv, PastCurves, PastOthers
<1>12. FilesInv'
  <2>1. Edge - 1 <= LiveFrom
    BY <1>1, <1>7, <1>9, ConstantTypes DEF FilesInv
  <2>2. QED
    BY <1>1, <1>2, <1>4, <1>9, <1>10, <1>11, <2>1 DEF FilesInv
<1>13. BackfillInv' /\ SlowInv'
  BY <1>1, <1>2, <1>4, <1>5, BackfillKeeps, SlowKeeps, QueueType
<1>14. FollowInv'
  <2>1. Followed' = Followed /\ QueueSet' = QueueSet
    BY <1>2 DEF Followed, QueueSet
  <2>2. QED
    BY <1>1, <1>2, <1>4, <1>5, <1>7, <2>1 DEF FollowInv
<1>15. LiveInv'
  BY <1>1, <1>2 DEF LiveInv, LiveHand, LiveIdle
<1>16. QED
  BY <1>3, <1>4, <1>9, <1>12, <1>13, <1>14, <1>15 DEF IInv

LEMMA LiveFailInv ==
  ASSUME IInv, TypeOK', LiveFail
  PROVE  IInv'
<1> USE DEF PonsLoops
<1>1. /\ TypeOK /\ FilesInv /\ BackfillInv /\ SlowInv /\ FollowInv /\ LiveInv
      /\ pons \in [PonsLoops -> PonsRecord]
  BY DEF IInv, TypeOK, PonsRecord
<1>2. /\ status' = status /\ rejected' = rejected /\ quotes' = quotes /\ dropped' = dropped
      /\ lost' = lost /\ abandoned' = abandoned /\ slow' = slow /\ saved' = saved
      /\ young' = young /\ slowLive' = slowLive /\ scannedTo' = scannedTo
      /\ live' = LiveIdle /\ pons' = [pons EXCEPT !["live"] = Idle]
  BY DEF LiveFail, memory, window, files, history
<1>3. Done \subseteq Done' /\ Kept \subseteq Kept'
  BY <1>1, <1>2, DoneGrows
<1>4. FilesInv'
  BY <1>1, <1>2, <1>3, FilesKeeps DEF FilesInv, TypeOK
<1>5. pons'["live"] = Idle /\ pons'["backfill"] = pons["backfill"]
  BY <1>1, <1>2
<1>6. BackfillInv' /\ SlowInv' /\ FollowInv'
  BY <1>1, <1>2, <1>3, <1>5, BackfillKeeps, SlowKeeps, FollowKeeps, QueueType
<1>7. LiveInv'
  BY <1>2, <1>5 DEF LiveInv, LiveHand, Hand, Idle, LiveIdle
<1>8. QED
  BY <1>4, <1>6, <1>7 DEF IInv

LEMMA QuietInv ==
  ASSUME IInv, TypeOK', Tick \/ SaveState \/ UNCHANGED vars
  PROVE  IInv'
<1>1. /\ TypeOK /\ FilesInv /\ BackfillInv /\ SlowInv /\ FollowInv /\ LiveInv
      /\ \A t \in live.naming : status[t] \notin Labels
  BY DEF IInv, LiveInv
<1>2. /\ status' = status /\ rejected' = rejected /\ quotes' = quotes /\ dropped' = dropped
      /\ lost' = lost /\ abandoned' = abandoned /\ slow' = slow /\ saved' = saved /\ pons' = pons
      /\ young' = young /\ slowLive' = slowLive /\ scannedTo' = scannedTo /\ live' = live
  BY DEF Tick, SaveState, vars, memory, window, loops, files, history
<1>3. Done \subseteq Done' /\ Kept \subseteq Kept'
  BY <1>1, <1>2, DoneGrows
<1>4. FilesInv'
  BY <1>1, <1>2, <1>3, FilesKeeps DEF FilesInv, TypeOK
<1>5. BackfillInv' /\ SlowInv' /\ FollowInv' /\ LiveInv'
  BY <1>1, <1>2, <1>3, BackfillKeeps, SlowKeeps, FollowKeeps, LiveKeeps, QueueType
<1>6. QED
  BY <1>4, <1>5 DEF IInv

LEMMA StopInv ==
  ASSUME IInv, TypeOK', Stop
  PROVE  IInv'
<1>1. /\ TypeOK /\ FilesInv /\ BackfillInv /\ SlowInv /\ FollowInv /\ LiveInv
      /\ \A t \in live.naming : status[t] \notin Labels
  BY DEF IInv, LiveInv
<1>2. /\ status' = status /\ rejected' = rejected /\ quotes' = quotes /\ dropped' = dropped
      /\ lost' = lost /\ abandoned' = abandoned /\ slow' = slow /\ pons' = pons
      /\ young' = young /\ slowLive' = slowLive /\ scannedTo' = scannedTo /\ live' = live
      /\ saved' = [saved EXCEPT !.rejected = rejected]
  BY DEF Stop, memory, window, loops, history
<1>3. /\ saved'.live = saved.live /\ saved'.rejected = rejected
      /\ saved'.backfill = saved.backfill /\ saved'.slow = saved.slow
  BY <1>1, <1>2 DEF TypeOK
<1>4. Done \subseteq Done' /\ Kept \subseteq Kept'
  BY <1>1, <1>2, <1>3, DoneGrows DEF FilesInv
<1>5. PastCurves' = PastCurves /\ PastOthers' = PastOthers /\ PastLive' = PastLive
  BY <1>3 DEF PastCurves, PastOthers, PastLive
<1>6. FilesInv'
  BY <1>1, <1>2, <1>3, <1>4, <1>5 DEF FilesInv
<1>7. BackfillInv' /\ SlowInv' /\ FollowInv' /\ LiveInv'
  BY <1>1, <1>2, <1>3, <1>4, BackfillKeeps, SlowKeeps, FollowKeeps, LiveKeeps, QueueType
<1>8. QED
  BY <1>6, <1>7 DEF IInv

(* A restart forgets everything but the files; what the cursors have       *)
(* passed is kept by them, or is counted as lost.                          *)
LEMMA RestartInv ==
  ASSUME IInv, TypeOK', Restart
  PROVE  IInv'
<1>1. /\ TypeOK /\ FilesInv /\ saved.live \in Int
  BY DEF IInv, TypeOK
<1>2. /\ status' = stored /\ rejected' = saved.rejected /\ quotes' = {} /\ dropped' = dropped
      /\ lost' = lost \cup {t \in Tokens : status[t] \in Labels /\ stored[t] \notin Labels}
      /\ abandoned' = abandoned /\ saved' = saved
      /\ slow' = SlowIdle /\ live' = LiveIdle /\ pons' = [p \in PonsLoops |-> Idle]
      /\ young' = {} /\ slowLive' = <<>> /\ scannedTo' = saved.live
  BY DEF Restart, ResumeAt, files
<1>3. Kept \subseteq Kept' /\ Kept' = Done'
  BY <1>2 DEF Kept, Done, Accounted, HasOutcome
<1>4. PastCurves' = PastCurves /\ PastOthers' = PastOthers /\ PastLive' = PastLive
  BY <1>2 DEF PastCurves, PastOthers, PastLive
<1>5. FilesInv'
  BY <1>1, <1>2, <1>3, <1>4 DEF FilesInv
<1>6. BackfillInv' /\ SlowInv' /\ LiveInv'
  BY <1>2 DEF BackfillInv, BackfillHand, SlowInv, SlowHand, LiveInv, LiveHand, Hand,
              Idle, SlowIdle, LiveIdle, PonsLoops
<1>7. FollowInv'
  <2>1. QueueSet' = {} /\ Followed' = {} /\ young' = {}
    BY <1>2 DEF QueueSet, Followed
  <2>2. \A l \in Launch : Edge <= l.block /\ l.block <= scannedTo' => l.token \in Done'
    BY <1>1, <1>2, <1>3 DEF FilesInv, PastLive
  <2>3. QED
    BY <2>1, <2>2 DEF FollowInv
<1>8. QED
  BY <1>5, <1>6, <1>7, <1>1 DEF IInv

LEMMA NextInv == IInv /\ [Next]_vars => IInv'
<1> SUFFICES ASSUME IInv, [Next]_vars
             PROVE  IInv'
  OBVIOUS
<1>0. TypeOK'
  BY NextType DEF IInv
<1>1. CASE Backfill
  BY <1>0, <1>1, BackfillLoopInv, PonsBackfillInv DEF Backfill
<1>2. CASE Slow
  BY <1>0, <1>2, SlowStartInv, QueueStartInv, DexInv, SlowDoneInv, QueueDoneInv DEF Slow
<1>3. CASE Live
  BY <1>0, <1>3, LiveScanInv, LiveMatureInv, PonsLiveInv, LiveMaturedInv, LiveWatchInv, LiveSaveInv DEF Live
<1>4. CASE Fail
  BY <1>0, <1>4, BackfillLoopInv, SlowFailInv, LiveFailInv DEF Fail
<1>5. CASE Tick \/ SaveState \/ UNCHANGED vars
  BY <1>0, <1>5, QuietInv
<1>6. CASE Stop \/ Restart
  BY <1>0, <1>6, StopInv, RestartInv
<1>7. QED
  BY <1>1, <1>2, <1>3, <1>4, <1>5, <1>6 DEF Next

LEMMA Inductive == Spec => []IInv
<1>1. QED
  BY InitInv, NextInv, PTL DEF Spec

-----------------------------------------------------------------------------
(* The theorems.                                                           *)

(* No launch is skipped: what the cursors of chain.json have passed has an *)
(* outcome, or is one of the named losses.                                 *)
THEOREM NoLaunchSkipped == Spec => []LaunchesAccounted
<1>1. IInv => LaunchesAccounted
  <2>1. Kept \subseteq Done \/ ~FilesInv
    BY DEF FilesInv, Kept, Done, Accounted, HasOutcome
  <2>2. QED
    BY <2>1 DEF IInv, FilesInv, LaunchesAccounted, Done
<1>2. QED
  BY <1>1, Inductive, PTL

(* Every live launch that was read is answered or followed by a candidate  *)
(* that keeps liveFrom behind it.                                          *)
THEOREM LiveFollowed == Spec => []LiveLaunchesFollowed
<1>1. IInv => LiveLaunchesFollowed
  BY DEF IInv, FollowInv, Followed, LiveLaunchesFollowed, Done
<1>2. QED
  BY <1>1, Inductive, PTL

(* labelQueued works on the head of the queue until it splices it.         *)
THEOREM BatchIsHead == Spec => []SlowBatchIsQueueHead
<1>1. IInv => SlowBatchIsQueueHead
  BY DEF IInv, SlowInv, SlowHand, SlowBatchIsQueueHead
<1>2. QED
  BY <1>1, Inductive, PTL

(* No step but a crash takes a label from a token.                         *)
THEOREM LabelsNeverLost == Spec => LabelsStay
<1>1. ASSUME IInv, TypeOK', [Next]_vars, crashes' = crashes
      PROVE  \A t \in Tokens : status[t] \in Labels => status'[t] \in Labels
  <2>0. /\ TypeOK /\ FilesInv /\ SlowInv /\ quotes \subseteq dropped
        /\ \A p \in PonsLoops : /\ pons[p].pc = "idle" => Hand(pons[p]) = {}
                                /\ pons[p].pc = "finish" => pons[p].todo = {}
    BY <1>1 DEF IInv, FilesInv, BackfillInv, BackfillHand, LiveInv, LiveHand, PonsLoops
  <2>1. CASE PonsStep("backfill") \/ PonsStep("live")
    BY <1>1, <2>0, <2>1, PonsStepFacts DEF PonsLoops
  <2>2. CASE DexStep
    BY <1>1, <2>0, <2>2, DexStepFacts
  <2>3. CASE LiveDropStale \/ (\E c \in young : LiveNameCurve(c)) \/ (\E t \in Tokens : LiveShowCurve(t))
    BY <1>1, <2>3, LiveWatchInv
  <2>4. CASE LiveSave
    BY <1>1, <2>4, LiveSaveInv
  <2>5. CASE BackfillStart \/ BackfillDone \/ BackfillFail
    BY <2>5 DEF BackfillStart, BackfillDone, BackfillFail, memory
  <2>6. CASE SlowStart \/ QueueStart \/ SlowDone \/ QueueDone \/ SlowFail
    BY <2>6 DEF SlowStart, QueueStart, SlowDone, QueueDone, SlowFail, memory
  <2>7. CASE LiveScan \/ LiveMature \/ LiveMatured \/ LiveFail
    BY <2>7 DEF LiveScan, LiveMature, LiveMatured, LiveFail, memory
  <2>8. CASE Tick \/ SaveState \/ Stop \/ UNCHANGED vars
    BY <2>8 DEF Tick, SaveState, Stop, vars, memory
  <2>9. CASE Restart
    BY <1>1, <2>0, <2>9 DEF Restart, TypeOK
  <2>10. QED
    BY <1>1, <2>1, <2>2, <2>3, <2>4, <2>5, <2>6, <2>7, <2>8, <2>9 DEF Next, Backfill, Slow, Live, Fail
<1>2. IInv /\ TypeOK' /\ [Next]_vars =>
        [crashes' = crashes => \A t \in Tokens : status[t] \in Labels => status'[t] \in Labels]_vars
  BY <1>1
<1>3. QED
  BY <1>2, TypeCorrect, Inductive, PTL DEF Spec, LabelsStay

(* The cursors of chain.json move in one direction.                        *)
THEOREM CursorsMoveOneWay == Spec => CursorsNeverTurnBack
<1> DEFINE Forward == /\ saved'.backfill <= saved.backfill /\ saved'.slow <= saved.slow
                      /\ saved'.live >= saved.live
<1>1. ASSUME IInv, TypeOK', [Next]_vars, ~UNCHANGED saved
      PROVE  Forward
  <2>0. /\ TypeOK /\ FilesInv
        /\ saved.backfill \in Int /\ saved.slow \in Int /\ saved.live \in Int
    BY <1>1 DEF IInv, TypeOK
  <2>1. CASE BackfillDone
    <3>1. /\ saved'.backfill = BackfillLow - 1 /\ saved'.slow = saved.slow /\ saved'.live = saved.live
      BY <2>0, <2>1 DEF BackfillDone, Save, TypeOK
    <3>2. Oldest - 1 <= saved.backfill
      BY <2>0 DEF FilesInv
    <3>3. BackfillLow - 1 <= saved.backfill
      BY <2>0, <3>2, ConstantTypes DEF BackfillLow, Higher
    <3>4. QED
      BY <2>0, <3>1, <3>3
  <2>2. CASE SlowDone
    <3>1. /\ saved'.slow = SlowLow - 1 /\ saved'.backfill = saved.backfill /\ saved'.live = saved.live
      BY <2>0, <2>2 DEF SlowDone, Save, TypeOK
    <3>2. Oldest - 1 <= saved.slow
      BY <2>0 DEF FilesInv
    <3>3. SlowLow - 1 <= saved.slow
      BY <2>0, <3>2, ConstantTypes DEF SlowLow, Higher
    <3>4. QED
      BY <2>0, <3>1, <3>3
  <2>3. CASE LiveSave
    <3>1. saved'.backfill = saved.backfill /\ saved'.slow = saved.slow
      BY <2>0, <2>3 DEF LiveSave, Save, TypeOK
    <3>2. saved.live <= saved'.live
      BY <1>1, <2>3, LiveSaveInv
    <3>3. saved'.live \in Int
      BY <1>1 DEF TypeOK
    <3>4. QED
      BY <2>0, <3>1, <3>2, <3>3
  <2>4. CASE Stop
    BY <2>0, <2>4 DEF Stop, TypeOK
  <2>5. CASE PonsStep("backfill") \/ PonsStep("live")
    BY <1>1, <2>5 DEF PonsStep, PonsUntraded, PonsPriced, PonsBelow, PonsName, PonsLabel, PonsAllPriced, files
  <2>6. CASE DexStep
    BY <1>1, <2>6 DEF DexStep, DexOlder, DexUnlisted, DexLookup, DexUntraded, DexBelow, DexName, DexLabel, files
  <2>7. CASE BackfillStart \/ SlowStart \/ QueueStart \/ QueueDone \/ Fail
    BY <1>1, <2>7
       DEF BackfillStart, SlowStart, QueueStart, QueueDone, Fail, BackfillFail, SlowFail, LiveFail, files
  <2>8. CASE \/ LiveScan \/ LiveMature \/ LiveMatured \/ LiveDropStale
             \/ (\E c \in young : LiveNameCurve(c)) \/ (\E t \in Tokens : LiveShowCurve(t))
    BY <1>1, <2>8
       DEF LiveScan, LiveMature, LiveMatured, LiveDropStale, LiveNameCurve, LiveShowCurve, files
  <2>9. CASE Tick \/ SaveState \/ Restart \/ UNCHANGED vars
    BY <1>1, <2>9 DEF Tick, SaveState, Restart, vars, files
  <2>10. QED
    BY <1>1, <2>1, <2>2, <2>3, <2>4, <2>5, <2>6, <2>7, <2>8, <2>9 DEF Next, Backfill, Slow, Live
<1>2. IInv /\ TypeOK' /\ [Next]_vars => [Forward]_saved
  BY <1>1
<1>3. QED
  BY <1>2, TypeCorrect, Inductive, PTL DEF Spec, CursorsNeverTurnBack

-----------------------------------------------------------------------------
(* Tokens of one venue are labelled once.                                  *)

Pooled(t) == \E l \in Launch : l.token = t /\ ~l.curve
Apart(r) == r.todo \cap r.priced = {} /\ r.todo \cap r.naming = {} /\ r.priced \cap r.naming = {}

(* The slow loop only takes up tokens with a pool; a token is in one place *)
(* of the loop that has it, and is put down with its label.                *)
OnceInv ==
  /\ \A c \in Followed : ~c.curve => Pooled(c.token)
  /\ \A t \in SlowHand : Pooled(t)
  /\ \A p \in PonsLoops : Apart(pons[p])
  /\ slow.todo \cap slow.looking = {} /\ slow.todo \cap slow.naming = {} /\ slow.looking \cap slow.naming = {}
  /\ \A t \in Tokens : OneVenue(t) /\ status[t] \in Labels =>
       t \notin BackfillHand /\ t \notin LiveHand /\ t \notin SlowHand

LEMMA GroupPooled ==
  ASSUME NEW lo \in Int, NEW hi \in Int, NEW c \in Group(lo, hi), ~c.curve
  PROVE  Pooled(c.token)
<1>1. PICK l \in Launch : l.token = c.token /\ l.block = c.first
  BY GroupFacts
<1>2. lo <= c.first /\ c.first <= hi
  BY GroupFacts
<1>3. l.token = c.token /\ l.curve /\ lo <= l.block /\ l.block <= hi => c.curve
  BY GroupFacts
<1>4. QED
  BY <1>1, <1>2, <1>3 DEF Pooled

(* A token of one venue is in the hands of one loop.                       *)
LEMMA OneHand ==
  ASSUME IInv, OnceInv, NEW t \in Tokens, OneVenue(t)
  PROVE  /\ ~(t \in BackfillHand /\ t \in LiveHand)
         /\ ~(t \in BackfillHand /\ t \in SlowHand)
         /\ ~(t \in LiveHand /\ t \in SlowHand)
<1>1. t \in BackfillHand => \E l \in Launch : l.token = t /\ l.curve /\ l.block < Edge
  BY DEF IInv, BackfillInv
<1>2. t \in LiveHand => \E l \in Launch : l.token = t /\ l.curve /\ Edge <= l.block
  BY DEF IInv, LiveInv, FollowInv
<1>3. t \in SlowHand => \E l \in Launch : l.token = t /\ ~l.curve
  BY DEF OnceInv, Pooled
<1>4. \A l, k \in Launch : l.token = t /\ k.token = t /\ l.curve /\ k.curve => l = k
  BY CurveComesFirst
<1>5. \A l, k \in Launch : l.token = t /\ k.token = t => l.curve = k.curve
  BY DEF OneVenue
<1>6. ~(t \in BackfillHand /\ t \in LiveHand)
  BY <1>1, <1>2, <1>4, ConstantTypes, TokensAndBlocks
<1>7. QED
  BY <1>1, <1>2, <1>3, <1>5, <1>6


LEMMA DropLabelsNone ==
  ASSUME TypeOK, NEW t \in Tokens, Drop(t)
  PROVE  \A u \in Tokens : status'[u] \in Labels => status'[u] = status[u]
BY DEF TypeOK, Drop, Status, Labels

LEMMA PonsLabelling ==
  ASSUME TypeOK, NEW p \in PonsLoops, Apart(pons[p]), pons[p].pc = "finish" => pons[p].todo = {}, PonsStep(p)
  PROVE  /\ Apart(pons'[p])
         /\ \A t \in Tokens : status'[t] \in Labels /\ status'[t] # status[t] =>
              t \in Hand(pons[p]) /\ t \notin Hand(pons'[p])
<1> DEFINE Goal == /\ Apart(pons'[p])
                   /\ \A t \in Tokens : status'[t] \in Labels /\ status'[t] # status[t] =>
                        t \in Hand(pons[p]) /\ t \notin Hand(pons'[p])
<1>0. pons \in [PonsLoops -> PonsRecord] /\ pons[p] \in PonsRecord
  BY DEF TypeOK, PonsRecord
<1>1. ASSUME NEW t \in Tokens, PonsUntraded(p, t) PROVE Goal
  <2>1. pons'[p] = [pons[p] EXCEPT !.todo = @ \ {t}]
    BY <1>0, <1>1 DEF PonsUntraded
  <2>2. \A u \in Tokens : status'[u] \in Labels => status'[u] = status[u]
    BY <1>1, DropLabelsNone DEF PonsUntraded
  <2>3. Apart(pons'[p])
    BY <1>0, <2>1 DEF Apart, PonsRecord
  <2>4. QED
    BY <2>2, <2>3
<1>2. ASSUME NEW t \in Tokens, PonsPriced(p, t) PROVE Goal
  <2>1. pons'[p] = [pons[p] EXCEPT !.todo = @ \ {t}, !.priced = @ \cup {t}]
    BY <1>0, <1>2 DEF PonsPriced
  <2>2. pons[p].naming = {} \/ t \notin pons[p].naming
    BY <1>2 DEF PonsPriced, Apart
  <2>3. Apart(pons'[p])
    BY <1>0, <2>1, <2>2 DEF Apart, PonsRecord
  <2>4. QED
    BY <1>2, <2>3 DEF PonsPriced, memory
<1>3. ASSUME NEW t \in Tokens, PonsBelow(p, t) PROVE Goal
  <2>1. pons'[p] = [pons[p] EXCEPT !.priced = @ \ {t}]
    BY <1>0, <1>3 DEF PonsBelow
  <2>2. \A u \in Tokens : status'[u] \in Labels => status'[u] = status[u]
    BY <1>3, DropLabelsNone DEF PonsBelow
  <2>3. Apart(pons'[p])
    BY <1>0, <2>1 DEF Apart, PonsRecord
  <2>4. QED
    BY <2>2, <2>3
<1>4. ASSUME NEW t \in Tokens, PonsName(p, t) PROVE Goal
  <2>1. pons'[p] = [pons[p] EXCEPT !.priced = @ \ {t}, !.naming = {t}]
    BY <1>0, <1>4 DEF PonsName
  <2>2. t \in pons[p].priced
    BY <1>4 DEF PonsName
  <2>3. Apart(pons'[p])
    BY <1>0, <2>1, <2>2 DEF Apart, PonsRecord
  <2>4. QED
    BY <1>4, <2>3 DEF PonsName, memory
<1>5. ASSUME NEW t \in Tokens, PonsLabel(p, t) PROVE Goal
  <2>1. pons'[p] = [pons[p] EXCEPT !.naming = @ \ {t}]
    BY <1>0, <1>5 DEF PonsLabel
  <2>2. Apart(pons'[p])
    BY <1>0, <2>1 DEF Apart, PonsRecord
  <2>3. t \in Hand(pons[p]) /\ t \notin Hand(pons'[p])
    BY <1>0, <1>5, <2>1 DEF PonsLabel, Hand, Apart, PonsRecord
  <2>4. \A u \in Tokens : u # t => status'[u] = status[u]
    BY <1>5 DEF PonsLabel, TypeOK
  <2>5. QED
    BY <2>2, <2>3, <2>4
<1>6. CASE PonsAllPriced(p)
  <2>1. pons'[p] = [pons[p] EXCEPT !.pc = "finish"]
    BY <1>0, <1>6 DEF PonsAllPriced
  <2>2. Apart(pons'[p])
    BY <1>0, <2>1 DEF Apart, PonsRecord
  <2>3. QED
    BY <1>6, <2>2 DEF PonsAllPriced, memory
<1>7. QED
  BY <1>1, <1>2, <1>3, <1>4, <1>5, <1>6 DEF PonsStep

LEMMA DexLabelling ==
  ASSUME TypeOK, DexStep, slow.todo \cap slow.looking = {}, slow.todo \cap slow.naming = {},
         slow.looking \cap slow.naming = {}
  PROVE  /\ slow'.todo \cap slow'.looking = {} /\ slow'.todo \cap slow'.naming = {}
         /\ slow'.looking \cap slow'.naming = {} /\ SlowHand' \subseteq SlowHand
         /\ \A t \in Tokens : status'[t] \in Labels /\ status'[t] # status[t] => t \in SlowHand /\ t \notin SlowHand'
<1> DEFINE Goal == /\ slow'.todo \cap slow'.looking = {} /\ slow'.todo \cap slow'.naming = {}
                   /\ slow'.looking \cap slow'.naming = {} /\ SlowHand' \subseteq SlowHand
           Once == \A t \in Tokens : status'[t] \in Labels /\ status'[t] # status[t] =>
                     t \in SlowHand /\ t \notin SlowHand'
<1>0. slow \in SlowRecord
  BY DEF TypeOK, SlowRecord
<1>1. ASSUME NEW t \in Tokens, DexOlder(t) \/ DexUnlisted(t) PROVE Goal /\ Once
  <2>1. slow' = [slow EXCEPT !.todo = @ \ {t}]
    BY <1>1 DEF DexOlder, DexUnlisted
  <2>2. Goal
    BY <1>0, <2>1 DEF SlowHand, SlowRecord
  <2>3. QED
    BY <1>1, <2>2, DropLabelsNone DEF DexOlder, DexUnlisted
<1>2. ASSUME NEW t \in Tokens, DexLookup(t) PROVE Goal /\ Once
  <2>1. slow' = [slow EXCEPT !.todo = @ \ {t}, !.looking = {t}] /\ t \in slow.todo
    BY <1>2 DEF DexLookup, DexNext
  <2>2. Goal
    BY <1>0, <2>1 DEF SlowHand, SlowRecord
  <2>3. QED
    BY <1>2, <2>2 DEF DexLookup, memory
<1>3. ASSUME NEW t \in Tokens, DexUntraded(t) \/ DexBelow(t) PROVE Goal /\ Once
  <2>1. slow' = [slow EXCEPT !.looking = @ \ {t}]
    BY <1>3 DEF DexUntraded, DexBelow
  <2>2. Goal
    BY <1>0, <2>1 DEF SlowHand, SlowRecord
  <2>3. QED
    BY <1>3, <2>2, DropLabelsNone DEF DexUntraded, DexBelow
<1>4. ASSUME NEW t \in Tokens, DexName(t) PROVE Goal /\ Once
  <2>1. slow' = [slow EXCEPT !.looking = @ \ {t}, !.naming = @ \cup {t}] /\ t \in slow.looking
    BY <1>4 DEF DexName
  <2>2. Goal
    BY <1>0, <2>1 DEF SlowHand, SlowRecord
  <2>3. QED
    BY <1>4, <2>2 DEF DexName, memory
<1>5. ASSUME NEW t \in Tokens, DexLabel(t) PROVE Goal /\ Once
  <2>1. slow' = [slow EXCEPT !.naming = @ \ {t}] /\ t \in slow.naming
    BY <1>5 DEF DexLabel
  <2>2. Goal /\ t \in SlowHand /\ t \notin SlowHand'
    BY <1>0, <2>1 DEF SlowHand, SlowRecord
  <2>3. \A u \in Tokens : u # t => status'[u] = status[u]
    BY <1>5 DEF DexLabel, TypeOK
  <2>4. QED
    BY <2>2, <2>3
<1>6. QED
  BY <1>1, <1>2, <1>3, <1>4, <1>5 DEF DexStep

(* The queue only takes in candidates of the live window.                  *)
LEMMA QueueMembers ==
  ASSUME IInv, TypeOK', LiveMatured \/ QueueDone
  PROVE  QueueSet' \subseteq QueueSet \cup young
<1>1. TypeOK /\ SlowInv /\ LiveInv
  BY DEF IInv
<1>2. /\ Len(slowLive) \in Nat /\ slowLive \in Seq(Candidate)
      /\ QueueSet = {slowLive[i] : i \in 1..Len(slowLive)}
      /\ QueueSet' = {slowLive'[i] : i \in 1..Len(slowLive')}
  <2>1. DOMAIN slowLive = 1..Len(slowLive) /\ DOMAIN slowLive' = 1..Len(slowLive') /\ Len(slowLive) \in Nat
    BY LenProperties DEF IInv, TypeOK
  <2>2. QED
    BY <1>1, <2>1 DEF QueueSet, TypeOK
<1>3. CASE LiveMatured
  <2>1. PICK q \in Orderings({c \in live.matured : ~c.curve}) : slowLive' = slowLive \o q
    BY <1>3 DEF LiveMatured, Pushed
  <2>2. live.matured \in SUBSET Candidate /\ live.matured \subseteq young
    BY <1>1 DEF TypeOK, LiveInv
  <2>3. {c \in live.matured : ~c.curve} \in SUBSET Candidate
    BY <2>2
  <2>4. q \in Seq(Candidate) /\ Len(q) \in Nat /\ {q[i] : i \in 1..Len(q)} = {c \in live.matured : ~c.curve}
    BY <2>1, <2>3, OrderingFacts
  <2>5. /\ Len(slowLive') = Len(slowLive) + Len(q)
        /\ \A i \in 1..(Len(slowLive) + Len(q)) :
              slowLive'[i] = IF i <= Len(slowLive) THEN slowLive[i] ELSE q[i - Len(slowLive)]
    BY <1>2, <2>1, <2>4, ConcatProperties
  <2>6. ASSUME NEW i \in 1..Len(slowLive') PROVE slowLive'[i] \in QueueSet \cup young
    <3>1. CASE i <= Len(slowLive)
      BY <1>2, <2>5, <3>1
    <3>2. CASE ~(i <= Len(slowLive))
      <4>1. i - Len(slowLive) \in 1..Len(q) /\ slowLive'[i] = q[i - Len(slowLive)]
        BY <1>2, <2>4, <2>5, <3>2
      <4>2. QED
        BY <2>2, <2>4, <4>1
    <3>3. QED
      BY <3>1, <3>2
  <2>7. QED
    BY <1>2, <2>6
<1>4. CASE QueueDone
  <2>1. slowLive' = SubSeq(slowLive, slow.size + 1, Len(slowLive)) /\ slow.job = "queue"
    BY <1>4 DEF QueueDone, Spliced, DexReturns
  <2>2. slow.size \in Nat /\ slow.size <= Len(slowLive)
    BY <1>1, <2>1 DEF TypeOK, SlowInv
  <2>3. /\ Len(slowLive') = Len(slowLive) - slow.size
        /\ \A i \in 1..(Len(slowLive) - slow.size) : slowLive'[i] = slowLive[slow.size + i]
    <3>1. \A i \in (slow.size + 1)..Len(slowLive) : slowLive[i] \in Candidate
      BY <1>1, <2>2, QueueType
    <3>2. QED
      BY <1>2, <2>1, <2>2, <3>1, SubSeqProperties
  <2>4. ASSUME NEW i \in 1..Len(slowLive') PROVE slowLive'[i] \in QueueSet
    <3>1. slow.size + i \in 1..Len(slowLive) /\ slowLive'[i] = slowLive[slow.size + i]
      BY <1>2, <2>2, <2>3
    <3>2. QED
      BY <1>2, <3>1
  <2>5. QED
    BY <1>2, <2>4
<1>5. QED
  BY <1>3, <1>4

(* What is opened is not labelled.                                         *)
LEMMA OpenUnanswered ==
  ASSUME NEW cs
  PROVE  \A t \in TokensOf(Open(cs)) : status[t] \notin Labels
BY DEF TokensOf, Open, Labels

(* A step that gives no label, and puts in hand only what has none.        *)
LEMMA NoLabelGiven ==
  ASSUME OnceInv, \A t \in Tokens : status'[t] \in Labels => status'[t] = status[t],
         \A t \in BackfillHand' : t \in BackfillHand \/ status[t] \notin Labels,
         \A t \in LiveHand' : t \in LiveHand \/ status[t] \notin Labels,
         \A t \in SlowHand' : t \in SlowHand \/ status[t] \notin Labels
  PROVE  \A t \in Tokens :
           /\ OneVenue(t) /\ status'[t] \in Labels =>
                t \notin BackfillHand' /\ t \notin LiveHand' /\ t \notin SlowHand'
           /\ LabelledOnce(t)
BY DEF OnceInv, LabelledOnce

(* The hands and records of loops that rest.                               *)
LEMMA IdleFacts ==
  /\ Apart(Idle) /\ Hand(Idle) = {}
  /\ SlowIdle.todo = {} /\ SlowIdle.looking = {} /\ SlowIdle.naming = {}
BY DEF Idle, SlowIdle, Apart, Hand

LEMMA PonsOpenOnce ==
  ASSUME TypeOK, NEW p \in PonsLoops, NEW cs, PonsOpen(p, cs)
  PROVE  /\ \A o \in PonsLoops : o # p => pons'[o] = pons[o]
         /\ Apart(pons'[p]) /\ \A t \in Hand(pons'[p]) : status[t] \notin Labels
<1> DEFINE ts == TokensOf(Open({c \in cs : c.curve}))
<1>1. pons' = [pons EXCEPT ![p] = [Idle EXCEPT !.pc = "judge", !.todo = ts]]
  BY DEF PonsOpen
<1>2. \A t \in ts : status[t] \notin Labels
  BY OpenUnanswered
<1> HIDE DEF ts
<1>3. pons'[p] = [Idle EXCEPT !.pc = "judge", !.todo = ts]
  BY <1>1 DEF TypeOK
<1>4. pons'[p].todo = ts /\ pons'[p].priced = {} /\ pons'[p].naming = {}
  BY <1>3 DEF Idle
<1>5. QED
  BY <1>1, <1>2, <1>4 DEF TypeOK, Apart, Hand

LEMMA DexOpenOnce ==
  ASSUME NEW job, NEW cs, NEW n, DexOpen(job, cs, n), \A c \in cs : ~c.curve => Pooled(c.token)
  PROVE  /\ slow'.looking = {} /\ slow'.naming = {}
         /\ \A t \in SlowHand' : status[t] \notin Labels /\ Pooled(t)
<1> DEFINE ts == TokensOf(Open({c \in cs : ~c.curve}))
<1>1. slow' = [SlowIdle EXCEPT !.pc = "dex", !.job = job, !.size = n, !.todo = ts]
  BY DEF DexOpen
<1>2. \A t \in ts : status[t] \notin Labels /\ Pooled(t)
  BY OpenUnanswered DEF TokensOf, Open
<1> HIDE DEF ts
<1>3. slow'.todo = ts /\ slow'.looking = {} /\ slow'.naming = {}
  BY <1>1 DEF SlowIdle
<1>4. QED
  BY <1>2, <1>3 DEF SlowHand

Once == \A t \in Tokens : OneVenue(t) => LabelledOnce(t)

(* Steps of resolvePons and resolveDex.                                    *)
LEMMA PonsOnce ==
  ASSUME IInv, TypeOK', OnceInv, NEW p \in PonsLoops, PonsStep(p)
  PROVE  OnceInv' /\ Once
<1>1. /\ TypeOK /\ Apart(pons[p])
      /\ pons[p].pc = "idle" => Hand(pons[p]) = {}
      /\ pons[p].pc = "finish" => pons[p].todo = {}
  BY DEF IInv, OnceInv, PonsLoops, BackfillInv, BackfillHand, LiveInv, LiveHand
<1>2. /\ \A o \in PonsLoops : o # p => pons'[o] = pons[o]
      /\ Hand(pons'[p]) \subseteq Hand(pons[p])
      /\ slow' = slow /\ young' = young /\ slowLive' = slowLive
  BY <1>1, PonsStepFacts
<1>3. /\ Apart(pons'[p])
      /\ \A t \in Tokens : status'[t] \in Labels /\ status'[t] # status[t] =>
           t \in Hand(pons[p]) /\ t \notin Hand(pons'[p])
  BY <1>1, PonsLabelling
<1>4. /\ BackfillHand' \subseteq BackfillHand /\ LiveHand' \subseteq LiveHand /\ SlowHand' = SlowHand
      /\ Followed' = Followed
  BY <1>2 DEF PonsLoops, BackfillHand, LiveHand, SlowHand, Followed, QueueSet
<1>5. ASSUME NEW t \in Tokens, OneVenue(t)
      PROVE  /\ LabelledOnce(t)
             /\ status'[t] \in Labels => t \notin BackfillHand' /\ t \notin LiveHand' /\ t \notin SlowHand'
  <2>1. CASE status'[t] = status[t] \/ status'[t] \notin Labels
    BY <1>4, <1>5, <2>1 DEF OnceInv, LabelledOnce
  <2>2. CASE status'[t] \in Labels /\ status'[t] # status[t]
    <3>1. t \in Hand(pons[p]) /\ t \notin Hand(pons'[p])
      BY <1>3, <2>2
    <3>2. CASE p = "backfill"
      <4>1. t \in BackfillHand /\ t \notin BackfillHand'
        BY <3>1, <3>2 DEF BackfillHand
      <4>2. t \notin LiveHand /\ t \notin SlowHand
        BY <1>5, <4>1, OneHand
      <4>3. status[t] \notin Labels
        BY <1>5, <4>1 DEF OnceInv
      <4>4. QED
        BY <1>4, <4>1, <4>2, <4>3 DEF LabelledOnce
    <3>3. CASE p = "live"
      <4>1. t \in LiveHand /\ t \notin LiveHand'
        BY <3>1, <3>3 DEF LiveHand
      <4>2. t \notin BackfillHand /\ t \notin SlowHand
        BY <1>5, <4>1, OneHand
      <4>3. status[t] \notin Labels
        BY <1>5, <4>1 DEF OnceInv
      <4>4. QED
        BY <1>4, <4>1, <4>2, <4>3 DEF LabelledOnce
    <3>4. QED
      BY <3>2, <3>3 DEF PonsLoops
  <2>3. QED
    BY <2>1, <2>2
<1>6. \A o \in PonsLoops : Apart(pons'[o])
  BY <1>2, <1>3 DEF OnceInv
<1>7. QED
  BY <1>2, <1>4, <1>5, <1>6 DEF OnceInv, Once, OneVenue

LEMMA DexOnce ==
  ASSUME IInv, TypeOK', OnceInv, DexStep
  PROVE  OnceInv' /\ Once
<1>1. /\ TypeOK /\ FilesInv /\ SlowInv /\ quotes \subseteq dropped
      /\ slow.todo \cap slow.looking = {} /\ slow.todo \cap slow.naming = {} /\ slow.looking \cap slow.naming = {}
  BY DEF IInv, FilesInv, OnceInv
<1>2. pons' = pons /\ young' = young /\ slowLive' = slowLive
  BY <1>1, DexStepFacts
<1>3. /\ slow'.todo \cap slow'.looking = {} /\ slow'.todo \cap slow'.naming = {}
      /\ slow'.looking \cap slow'.naming = {} /\ SlowHand' \subseteq SlowHand
      /\ \A t \in Tokens : status'[t] \in Labels /\ status'[t] # status[t] => t \in SlowHand /\ t \notin SlowHand'
  BY <1>1, DexLabelling
<1>4. BackfillHand' = BackfillHand /\ LiveHand' = LiveHand /\ Followed' = Followed
  BY <1>2 DEF BackfillHand, LiveHand, Followed, QueueSet
<1>5. ASSUME NEW t \in Tokens, OneVenue(t)
      PROVE  /\ LabelledOnce(t)
             /\ status'[t] \in Labels => t \notin BackfillHand' /\ t \notin LiveHand' /\ t \notin SlowHand'
  <2>1. CASE status'[t] = status[t] \/ status'[t] \notin Labels
    BY <1>3, <1>4, <1>5, <2>1 DEF OnceInv, LabelledOnce
  <2>2. CASE status'[t] \in Labels /\ status'[t] # status[t]
    <3>1. t \in SlowHand /\ t \notin SlowHand'
      BY <1>3, <2>2
    <3>2. t \notin BackfillHand /\ t \notin LiveHand /\ status[t] \notin Labels
      BY <1>5, <3>1, OneHand DEF OnceInv
    <3>3. QED
      BY <1>4, <3>1, <3>2 DEF LabelledOnce
  <2>3. QED
    BY <2>1, <2>2
<1>6. QED
  BY <1>2, <1>3, <1>4, <1>5 DEF OnceInv, Once, OneVenue

(* A loop takes up the next candidates.                                    *)
LEMMA OpenOnce ==
  ASSUME IInv, OnceInv, BackfillStart \/ SlowStart \/ QueueStart \/ LiveMature
  PROVE  OnceInv' /\ Once
<1> USE DEF PonsLoops
<1>1. /\ TypeOK /\ status' = status /\ young' = young /\ slowLive' = slowLive /\ Followed' = Followed
      /\ \A t \in Tokens : status'[t] \in Labels => status'[t] = status[t]
  <2>1. memory' = memory /\ window' = window
    BY DEF BackfillStart, SlowStart, QueueStart, LiveMature
  <2>2. status' = status /\ young' = young /\ slowLive' = slowLive
    BY <2>1 DEF memory, window
  <2>3. QED
    BY <2>2 DEF IInv, Followed, QueueSet
<1>2. CASE BackfillStart
  <2>1. /\ slow' = slow /\ pons'["live"] = pons["live"] /\ Apart(pons'["backfill"])
        /\ \A t \in BackfillHand' : status[t] \notin Labels
    BY <1>1, <1>2, PonsOpenOnce DEF BackfillStart, BackfillHand
  <2>2. LiveHand' = LiveHand /\ SlowHand' = SlowHand
    BY <2>1 DEF LiveHand, SlowHand
  <2>3. QED
    BY <1>1, <2>1, <2>2, NoLabelGiven DEF OnceInv, Once, OneVenue
<1>3. CASE LiveMature
  <2>1. /\ slow' = slow /\ pons'["backfill"] = pons["backfill"] /\ Apart(pons'["live"])
        /\ \A t \in LiveHand' : t \in LiveHand \/ status[t] \notin Labels
    <3>1. slow' = slow
      BY <1>3 DEF LiveMature
    <3>2. CASE pons' = pons
      BY <3>1, <3>2 DEF OnceInv, LiveHand
    <3>3. CASE \E m : PonsOpen("live", m)
      BY <1>1, <3>1, <3>3, PonsOpenOnce DEF LiveHand
    <3>4. QED
      BY <1>3, <3>2, <3>3 DEF LiveMature
  <2>2. BackfillHand' = BackfillHand /\ SlowHand' = SlowHand
    BY <2>1 DEF BackfillHand, SlowHand
  <2>3. QED
    BY <1>1, <2>1, <2>2, NoLabelGiven DEF OnceInv, Once, OneVenue
<1>4. CASE SlowStart \/ QueueStart
  <2>1. pons' = pons /\ BackfillHand' = BackfillHand /\ LiveHand' = LiveHand
    BY <1>4 DEF SlowStart, QueueStart, BackfillHand, LiveHand
  <2>2. /\ slow'.looking = {} /\ slow'.naming = {}
        /\ \A t \in SlowHand' : status[t] \notin Labels /\ Pooled(t)
    <3>1. CASE SlowStart
      <4>1. SlowLow \in Int /\ saved.slow \in Int
        BY <1>1, ConstantTypes DEF TypeOK, SlowLow, Higher
      <4>2. \A c \in {d \in Group(SlowLow, saved.slow) : d.token \in Sampled} : ~c.curve => Pooled(c.token)
        BY <4>1, GroupPooled
      <4>3. QED
        BY <3>1, <4>2, DexOpenOnce DEF SlowStart
    <3>2. CASE QueueStart
      <4> DEFINE n == Lower(SlowBatch, Len(slowLive))
                 b == {slowLive[i] : i \in 1..n}
      <4>1. DexOpen("queue", b, n)
        BY <3>2 DEF QueueStart
      <4>2. n \in Nat /\ n <= Len(slowLive)
        BY <1>1, QueueType, ConstantTypes DEF Lower
      <4> HIDE DEF n
      <4>3. \A i \in 1..n : slowLive[i] \in QueueSet
        BY <1>1, <4>2, QueueType DEF QueueSet
      <4>4. \A c \in b : ~c.curve => Pooled(c.token)
        BY <4>3 DEF OnceInv, Followed
      <4> HIDE DEF b
      <4>5. QED
        BY <4>1, <4>4, DexOpenOnce
    <3>3. QED
      BY <1>4, <3>1, <3>2
  <2>3. QED
    BY <1>1, <2>1, <2>2, NoLabelGiven DEF OnceInv, Once, OneVenue
<1>5. QED
  BY <1>2, <1>3, <1>4

(* A loop puts down what it has, done or failed.                           *)
LEMMA PutDownOnce ==
  ASSUME IInv, TypeOK', OnceInv,
         \/ BackfillDone \/ BackfillFail \/ SlowDone \/ QueueDone \/ SlowFail \/ LiveMatured \/ LiveFail
  PROVE  OnceInv' /\ Once
<1> USE DEF PonsLoops
<1>1. TypeOK /\ status' = status /\ \A t \in Tokens : status'[t] \in Labels => status'[t] = status[t]
  BY DEF IInv, BackfillDone, BackfillFail, SlowDone, QueueDone, SlowFail, LiveMatured, LiveFail, memory
<1>2. \A p \in PonsLoops : pons'[p] = pons[p] \/ pons'[p] = Idle
  BY <1>1 DEF BackfillDone, BackfillFail, SlowDone, QueueDone, SlowFail, LiveMatured, LiveFail, PonsReturns, TypeOK
<1>3. slow' = slow \/ slow' = SlowIdle
  BY DEF BackfillDone, BackfillFail, SlowDone, QueueDone, SlowFail, LiveMatured, LiveFail, DexReturns
<1>4. BackfillHand' \subseteq BackfillHand /\ LiveHand' \subseteq LiveHand /\ SlowHand' \subseteq SlowHand
  BY <1>2, <1>3, IdleFacts DEF BackfillHand, LiveHand, SlowHand
<1>5. Followed' \subseteq Followed
  <2>1. young' \subseteq young
    BY DEF BackfillDone, BackfillFail, SlowDone, QueueDone, SlowFail, LiveMatured, LiveFail, window
  <2>2. CASE LiveMatured \/ QueueDone
    BY <2>1, <2>2, QueueMembers DEF Followed
  <2>3. CASE slowLive' = slowLive
    BY <2>1, <2>3 DEF Followed, QueueSet
  <2>4. QED
    BY <2>2, <2>3 DEF BackfillDone, BackfillFail, SlowDone, SlowFail, LiveFail, window
<1>6. \A t \in Tokens :
        /\ OneVenue(t) /\ status'[t] \in Labels =>
             t \notin BackfillHand' /\ t \notin LiveHand' /\ t \notin SlowHand'
        /\ LabelledOnce(t)
  BY <1>1, <1>4, NoLabelGiven
<1>7. \A p \in PonsLoops : Apart(pons'[p])
  BY <1>2, IdleFacts DEF OnceInv
<1>8. /\ slow'.todo \cap slow'.looking = {} /\ slow'.todo \cap slow'.naming = {}
      /\ slow'.looking \cap slow'.naming = {}
  BY <1>3, IdleFacts DEF OnceInv
<1>9. QED
  BY <1>4, <1>5, <1>6, <1>7, <1>8 DEF OnceInv, Once, OneVenue

LEMMA NextOnce ==
  ASSUME IInv, TypeOK', OnceInv, [Next]_vars
  PROVE  OnceInv' /\ (crashes' = crashes => Once)
<1> USE DEF PonsLoops
<1>0. TypeOK
  BY DEF IInv
<1>1. ASSUME UNCHANGED <<pons, slow, slowLive>>, \A c \in young' : ~c.curve => c \in young \/ Pooled(c.token),
             \A t \in Tokens : status'[t] \in Labels => status'[t] = status[t]
      PROVE  OnceInv' /\ Once
  <2>1. BackfillHand' = BackfillHand /\ LiveHand' = LiveHand /\ SlowHand' = SlowHand /\ QueueSet' = QueueSet
    BY <1>1 DEF BackfillHand, LiveHand, SlowHand, QueueSet
  <2>2. \A t \in Tokens :
          /\ OneVenue(t) /\ status'[t] \in Labels =>
               t \notin BackfillHand' /\ t \notin LiveHand' /\ t \notin SlowHand'
          /\ LabelledOnce(t)
    BY <1>1, <2>1, NoLabelGiven
  <2>3. \A c \in Followed' : ~c.curve => Pooled(c.token)
    BY <1>1, <2>1 DEF Followed, OnceInv
  <2>4. QED
    BY <1>1, <2>1, <2>2, <2>3 DEF OnceInv, Once, OneVenue
<1>2. CASE PonsStep("backfill") \/ PonsStep("live")
  BY <1>2, PonsOnce
<1>3. CASE DexStep
  BY <1>3, DexOnce
<1>4. CASE BackfillStart \/ SlowStart \/ QueueStart \/ LiveMature
  BY <1>4, OpenOnce
<1>5. CASE BackfillDone \/ BackfillFail \/ SlowDone \/ QueueDone \/ SlowFail \/ LiveMatured \/ LiveFail
  BY <1>5, PutDownOnce
<1>6. CASE LiveScan
  <2>1. scannedTo + 1 \in Int /\ clock \in Int
    BY <1>0 DEF TypeOK
  <2>2. \A c \in young' : ~c.curve => c \in young \/ Pooled(c.token)
    BY <1>6, <2>1, GroupPooled DEF LiveScan, NewLaunches
  <2>3. UNCHANGED <<pons, slow, slowLive, status>>
    BY <1>6 DEF LiveScan, memory
  <2>4. QED
    BY <1>1, <2>2, <2>3
<1>7. CASE LiveDropStale
  BY <1>0, <1>1, <1>7 DEF LiveDropStale, window, TypeOK, Labels
<1>8. ASSUME NEW t \in Tokens, LiveShowCurve(t) PROVE OnceInv' /\ Once
  BY <1>0, <1>1, <1>8 DEF LiveShowCurve, window, TypeOK, Labels
<1>9. CASE LiveSave
  BY <1>0, <1>1, <1>9 DEF LiveSave, window, TypeOK, Labels
<1>10. CASE (\E c \in young : LiveNameCurve(c)) \/ Tick \/ SaveState \/ Stop \/ UNCHANGED vars
  BY <1>1, <1>10 DEF LiveNameCurve, Tick, SaveState, Stop, vars, memory, window, loops
<1>11. CASE Restart
  <2>1. /\ pons'["backfill"] = Idle /\ pons'["live"] = Idle /\ slow' = SlowIdle
        /\ young' = {} /\ slowLive' = <<>> /\ crashes' # crashes
    BY <1>0, <1>11 DEF Restart, TypeOK
  <2>2. BackfillHand' = {} /\ LiveHand' = {} /\ SlowHand' = {} /\ Followed' = {}
    BY <2>1, IdleFacts DEF BackfillHand, LiveHand, SlowHand, Followed, QueueSet
  <2>3. QED
    BY <2>1, <2>2, IdleFacts DEF OnceInv
<1>12. QED
  BY <1>2, <1>3, <1>4, <1>5, <1>6, <1>7, <1>8, <1>9, <1>10, <1>11 DEF Next, Backfill, Slow, Live, Fail

(* The label of a token launched on one venue never changes: it is in the  *)
(* hands of one loop at a time, in one place of it, and of none once it    *)
(* has its label; whatever fails, is repeated or stops (README, "Each      *)
(* token is labelled once"; chain.ts, open and finish).                    *)
THEOREM OneVenueOneLabel == Spec => OneVenueLabelledOnce
<1>1. Init => OnceInv
  <2> SUFFICES ASSUME Init PROVE OnceInv
    OBVIOUS
  <2>1. /\ pons["backfill"] = Idle /\ pons["live"] = Idle /\ slow = SlowIdle
        /\ young = {} /\ slowLive = <<>>
    BY DEF Init, PonsLoops
  <2>2. BackfillHand = {} /\ LiveHand = {} /\ SlowHand = {} /\ Followed = {}
    BY <2>1, IdleFacts DEF BackfillHand, LiveHand, SlowHand, Followed, QueueSet
  <2>3. QED
    BY <2>1, <2>2, IdleFacts DEF OnceInv, PonsLoops
<1>2. IInv /\ TypeOK' /\ OnceInv /\ [Next]_vars => OnceInv'
  BY NextOnce
<1>3. IInv /\ TypeOK' /\ OnceInv /\ [Next]_vars =>
        [crashes' = crashes => \A t \in Tokens : OneVenue(t) => LabelledOnce(t)]_vars
  BY NextOnce DEF Once
<1>4. QED
  BY <1>1, <1>2, <1>3, TypeCorrect, Inductive, PTL DEF Spec, OneVenueLabelledOnce
=============================================================================
