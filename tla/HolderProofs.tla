---------------------------- MODULE HolderProofs ----------------------------
(***************************************************************************)
(* Proofs about HolderCounts, for any set of tokens, any number of slots,  *)
(* tries, failures, restarts and changes of the hour mark.                 *)
(***************************************************************************)
EXTENDS HolderCounts, TLAPS, FiniteSetTheorems, SequenceTheorems

-----------------------------------------------------------------------------
(* The inductive invariant.                                                *)

(* A slot holds one job: what ends with it is that job and no other.       *)
OneJobPerSlot == \A i \in Slots : \A j, k \in flight[i] : j = k

(* A token that is not there has no count.                                 *)
AbsentIsBare == \A t \in Tokens : /\ tokens[t].status = "absent" => ~HasCount(tokens[t])
                                  /\ stored[t].status = "absent" => ~HasCount(stored[t])

(* Where counts of an older hour mark can be: on watched tokens an upgrade *)
(* carried, on labelled ones also by way of state.json.                    *)
Old(r) == HasCount(r) /\ r.mark # mark
OldCounts == \A t \in Tokens :
  /\ Old(tokens[t]) /\ tokens[t].status = "pending" => t \in carried
  /\ Old(tokens[t]) /\ tokens[t].status = "labelled" => t \in carried \cup skipped
  /\ Old(stored[t]) /\ stored[t].status = "pending" => t \in carried

(* A token of one venue is in the hands of one pass, and not once it has   *)
(* its label.                                                              *)
VenueInv == \A t \in Tokens \ TwoVenues, p \in Passes :
  <<t, p>> \in due => p \in Passed(t) /\ StatusOf(t) # "labelled"

JobInv == OneJobPerSlot /\ LabelledHasJob
MarkInv == savedMark = mark /\ AbsentIsBare /\ OldCounts

-----------------------------------------------------------------------------
LEMMA Constants ==
  /\ Live \subseteq Tokens /\ Tokens \in SUBSET Tokens
  /\ Parallel \in Nat /\ MaxTries \in Nat /\ MaxTries > 0
  /\ IsFiniteSet(Tokens)
BY HolderAssumption

LEMMA RecordFacts ==
  /\ Absent \in Record /\ Absent.status = "absent" /\ ~HasCount(Absent)
  /\ \A s \in {"absent", "pending", "labelled"} :
       Uncounted(s) \in Record /\ Uncounted(s).status = s /\ ~HasCount(Uncounted(s)) /\ Awaits(Uncounted(s))
  /\ \A r \in Record : \A s \in {"absent", "pending", "labelled"} :
       LET q == [r EXCEPT !.status = s]
       IN  q \in Record /\ q.status = s /\ q.missing = r.missing /\ q.partial = r.partial /\ q.mark = r.mark
BY DEF Record, Absent, Uncounted, HasCount, Awaits

LEMMA JobFacts ==
  /\ \A t \in Tokens : NewJob(t) \in Job /\ NewJob(t).token = t
  /\ \A j \in Job : /\ j.token \in Tokens /\ NextTry(j).token = j.token
                    /\ MayRetry(j) => NextTry(j) \in Job
<1>1. \A t \in Tokens : NewJob(t) \in Job /\ NewJob(t).token = t
  BY Constants DEF NewJob, Job
<1>2. ASSUME NEW j \in Job
      PROVE  /\ j.token \in Tokens /\ NextTry(j).token = j.token
             /\ MayRetry(j) => NextTry(j) \in Job
  BY Constants DEF Job, NextTry, MayRetry
<1>3. QED
  BY <1>1, <1>2

(* What the replay of a token's transfers leaves in its record.            *)
LEMMA ReplayFacts ==
  ASSUME NEW r \in Record, mark \in Nat, NEW q \in {AsCounted(r), AsPartial(r)}
  PROVE  q \in Record /\ q.status = r.status /\ q.mark = mark /\ HasCount(q) /\ ~Awaits(q)
BY DEF Record, AsCounted, AsPartial, HasCount, Awaits

(* The queue init() builds holds a job for each token it is meant to hold. *)
LEMMA RequeueFacts ==
  ASSUME NEW r \in [Tokens -> Record], NEW q \in Orderings(Requeued(r))
  PROVE  /\ q \in Seq(Job)
         /\ \A t \in Tokens : r[t].status = "labelled" /\ Awaits(r[t]) => \E i \in DOMAIN q : q[i].token = t
<1> DEFINE U == {u \in Tokens : r[u].status = "labelled" /\ Awaits(r[u])}
           N == Cardinality(Requeued(r))
<1>1. Requeued(r) = {NewJob(t) : t \in U}
  BY DEF Requeued
<1>2. IsFiniteSet(U)
  BY Constants, FS_Subset
<1>3. IsFiniteSet(Requeued(r))
  <2> DEFINE f == [t \in U |-> NewJob(t)]
  <2>1. f \in Surjection(U, Requeued(r))
    BY <1>1 DEF Surjection
  <2>2. QED
    BY <2>1, <1>2, FS_Surjection
<1>4. N \in Nat
  BY <1>3, FS_CardinalityType
<1>5. q \in [1..N -> Requeued(r)] /\ \A x \in Requeued(r) : \E i \in 1..N : q[i] = x
  BY DEF Orderings
<1>6. Requeued(r) \subseteq Job
  BY <1>1, JobFacts
<1>7. q \in Seq(Job)
  <2>1. q \in [1..N -> Job]
    BY <1>5, <1>6
  <2>2. QED
    BY <2>1, <1>4
<1>8. ASSUME NEW t \in U
      PROVE  \E i \in DOMAIN q : q[i].token = t
  <2>1. NewJob(t) \in Requeued(r) /\ NewJob(t).token = t
    BY <1>1, JobFacts
  <2>2. PICK i \in 1..N : q[i] = NewJob(t)
    BY <1>5, <2>1
  <2>3. QED
    BY <2>1, <2>2, <1>5
<1>9. QED
  BY <1>7, <1>8

-----------------------------------------------------------------------------
(* Type correctness.                                                       *)

LEMMA InitType == Init => TypeOK
<1> SUFFICES ASSUME Init PROVE TypeOK
  OBVIOUS
<1>1. tokens \in [Tokens -> Record] /\ stored \in [Tokens -> Record]
  BY RecordFacts DEF Init
<1>2. holderQueue \in Seq(Job) /\ flight \in [Slots -> SUBSET Job]
  BY DEF Init
<1>3. QED
  BY <1>1, <1>2 DEF Init, TypeOK

LEMMA IngestType == TypeOK /\ Ingest => TypeOK'
<1> SUFFICES ASSUME TypeOK, Ingest PROVE TypeOK'
  OBVIOUS
<1> USE RecordFacts
<1>1. ASSUME NEW t \in Tokens, Show(t) PROVE TypeOK'
  <2>1. tokens' \in [Tokens -> Record]
    BY <1>1 DEF Show, TypeOK
  <2>2. QED
    BY <1>1, <2>1 DEF Show, TypeOK, ingest, jobs, files, history
<1>2. ASSUME NEW t \in Tokens, Hide(t) PROVE TypeOK'
  <2>1. tokens' \in [Tokens -> Record]
    BY <1>2 DEF Hide, TypeOK
  <2>2. QED
    BY <1>2, <2>1 DEF Hide, TypeOK, ingest, jobs, files, budget, history
<1>3. ASSUME NEW t \in Tokens, DropStale(t) PROVE TypeOK'
  <2>1. tokens' \in [Tokens -> Record]
    BY <1>3 DEF DropStale, TypeOK
  <2>2. QED
    BY <1>3, <2>1 DEF DropStale, TypeOK, ingest, files, budget, history
<1>4. ASSUME NEW t \in Tokens, Mature(t) PROVE TypeOK'
  <2>1. due' \subseteq Tokens \X Passes
    BY <1>4 DEF Mature, TypeOK, Passes
  <2>2. QED
    BY <1>4, <2>1 DEF Mature, TypeOK, jobs, files, budget, history
<1>5. ASSUME NEW t \in Tokens, NEW p \in Passes, Finish(t, p) PROVE TypeOK'
  <2>1. tokens' \in [Tokens -> Record]
    <3>1. tokens[t] \in Record
      BY DEF TypeOK
    <3>2. [tokens[t] EXCEPT !.status = "labelled"] \in Record /\ Uncounted("labelled") \in Record
      BY <3>1
    <3>3. QED
      BY <1>5, <3>2 DEF Finish, TypeOK
  <2>2. holderQueue' \in Seq(Job)
    <3>1. Append(holderQueue, NewJob(t)) \in Seq(Job)
      BY JobFacts DEF TypeOK
    <3>2. QED
      BY <1>5, <3>1 DEF Finish, TypeOK
  <2>3. QED
    BY <1>5, <2>1, <2>2 DEF Finish, TypeOK, files, budget, history
<1>6. ASSUME NEW t \in Tokens, NEW p \in Passes, Leave(t, p) PROVE TypeOK'
  <2>1. tokens' \in [Tokens -> Record]
    BY <1>6 DEF Leave, TypeOK
  <2>2. QED
    BY <1>6, <2>1 DEF Leave, TypeOK, jobs, files, budget, history
<1>7. ASSUME NEW p \in {"backfill", "slow"}, History(p) PROVE TypeOK'
  <2>1. due' \subseteq Tokens \X Passes
    BY <1>7 DEF History, TypeOK, Passes
  <2>2. QED
    BY <1>7, <2>1 DEF History, TypeOK, jobs, files, budget, history
<1>8. QED
  BY <1>1, <1>2, <1>3, <1>4, <1>5, <1>6, <1>7 DEF Ingest

(* holdersBatch splits the queue into the slots and the rest.              *)
LEMMA BatchFacts ==
  ASSUME TypeOK, TakeBatch
  PROVE  /\ flight' \in [Slots -> SUBSET Job] /\ holderQueue' \in Seq(Job)
         /\ OneJobPerSlot'
         /\ \A t \in Tokens : HasJob(t) => HasJob(t)'
<1> DEFINE L == Len(holderQueue)
           n == Lower(Parallel, L)
           rest == SubSeq(holderQueue, n + 1, L)
<1>1. /\ \A i \in Slots : flight[i] = {}
      /\ flight' = [i \in Slots |-> IF i <= n THEN {holderQueue[i]} ELSE {}]
      /\ holderQueue' = rest
  BY DEF TakeBatch
<1>2. L \in Nat /\ DOMAIN holderQueue = 1..L /\ \A i \in 1..L : holderQueue[i] \in Job
  BY DEF TypeOK
<1>3. n \in Nat /\ n <= L /\ n <= Parallel
  BY <1>2, Constants DEF Lower
<1>4. \A i \in Slots : i <= n => holderQueue[i] \in Job
  BY <1>2, <1>3, Constants DEF Slots
<1>5. flight' \in [Slots -> SUBSET Job]
  BY <1>1, <1>4
<1>6. /\ rest \in Seq(Job) /\ Len(rest) = L - n
      /\ \A i \in 1..(L - n) : rest[i] = holderQueue[n + i]
  <2>1. \A i \in (n + 1)..L : holderQueue[i] \in Job
    BY <1>2, <1>3
  <2>2. n + 1 \in Int /\ L \in Int
    BY <1>2, <1>3
  <2>3. /\ rest \in Seq(Job) /\ Len(rest) = IF n + 1 <= L THEN L - (n + 1) + 1 ELSE 0
        /\ \A i \in 1..(L - (n + 1) + 1) : rest[i] = holderQueue[(n + 1) + i - 1]
    BY <2>1, <2>2, SubSeqProperties
  <2>4. QED
    BY <2>3, <1>2, <1>3, SMTT(30)
<1>7. OneJobPerSlot'
  BY <1>1 DEF OneJobPerSlot
<1>8. ASSUME NEW t \in Tokens, HasJob(t)
      PROVE  HasJob(t)'
  <2>1. PICK i \in 1..L : holderQueue[i].token = t
    BY <1>1, <1>2, <1>8 DEF HasJob
  <2>2. CASE i <= n
    <3>1. i \in Slots
      BY <2>2, <1>3, Constants DEF Slots
    <3>2. holderQueue[i] \in flight'[i]
      BY <3>1, <2>2, <1>1
    <3>3. QED
      BY <3>1, <3>2, <2>1 DEF HasJob
  <2>3. CASE ~(i <= n)
    <3>1. i - n \in 1..(L - n) /\ n + (i - n) = i
      BY <2>3, <1>2, <1>3
    <3>2. rest[i - n].token = t
      BY <3>1, <1>6, <2>1
    <3>3. DOMAIN rest = 1..(L - n)
      BY <1>6, LenProperties
    <3>4. QED
      BY <3>1, <3>2, <3>3, <1>1 DEF HasJob
  <2>4. QED
    BY <2>2, <2>3
<1>9. QED
  BY <1>1, <1>5, <1>6, <1>7, <1>8

LEMMA CountType == TypeOK /\ Count => TypeOK'
<1> SUFFICES ASSUME TypeOK, Count PROVE TypeOK'
  OBVIOUS
<1>1. ASSUME NEW t \in Tokens, QueueYoung(t) PROVE TypeOK'
  <2>1. <<NewJob(t)>> \in Seq(Job) /\ holderQueue \in Seq(Job)
    BY JobFacts DEF TypeOK
  <2>2. holderQueue' \in Seq(Job)
    BY <2>1, <1>1, ConcatProperties DEF QueueYoung
  <2>3. QED
    BY <1>1, <2>2 DEF QueueYoung, TypeOK, ingest, files, budget, history
<1>2. ASSUME TakeBatch PROVE TypeOK'
  BY <1>2, BatchFacts DEF TakeBatch, TypeOK, ingest, files, budget, history
<1>3. ASSUME NEW i \in Slots, NEW j \in flight[i], Replayed(i, j) PROVE TypeOK'
  <2>1. j \in Job /\ j.token \in Tokens
    BY JobFacts DEF TypeOK
  <2>2. tokens[j.token] \in Record /\ mark \in Nat
    BY <2>1 DEF TypeOK
  <2>3. tokens' \in [Tokens -> Record]
    <3>1. PICK r \in {AsCounted(tokens[j.token]), AsPartial(tokens[j.token])} :
            tokens' = IF StatusOf(j.token) = "absent" THEN tokens ELSE [tokens EXCEPT ![j.token] = r]
      BY <1>3 DEF Replayed
    <3>2. r \in Record
      BY <2>2, ReplayFacts
    <3>3. QED
      BY <3>1, <3>2 DEF TypeOK
  <2>4. flight' \in [Slots -> SUBSET Job]
    BY <1>3 DEF Replayed, TypeOK
  <2>5. QED
    BY <1>3, <2>3, <2>4 DEF Replayed, TypeOK, ingest, files, budget, history
<1>4. ASSUME NEW i \in Slots, NEW j \in flight[i], LookupFails(i, j) PROVE TypeOK'
  <2>1. j \in Job /\ j.token \in Tokens
    BY JobFacts DEF TypeOK
  <2>2. holderQueue' \in Seq(Job)
    <3>1. CASE MayRetry(j)
      <4>1. NextTry(j) \in Job
        BY <3>1, <2>1, JobFacts
      <4>2. Append(holderQueue, NextTry(j)) \in Seq(Job)
        BY <4>1 DEF TypeOK
      <4>3. QED
        BY <4>2, <3>1, <1>4 DEF LookupFails, BackInLine
    <3>2. CASE ~MayRetry(j)
      BY <3>2, <1>4 DEF LookupFails, TypeOK
    <3>3. QED
      BY <3>1, <3>2
  <2>3. flight' \in [Slots -> SUBSET Job]
    BY <1>4 DEF LookupFails, TypeOK
  <2>4. fails' \in Nat
    BY <1>4 DEF LookupFails, TypeOK
  <2>5. youngHolders' \subseteq Tokens /\ gaveUp' \subseteq Tokens
    BY <1>4, <2>1 DEF LookupFails, TypeOK, NoLongerYoung
  <2>6. QED
    BY <1>4, <2>2, <2>3, <2>4, <2>5 DEF LookupFails, TypeOK, ingest, files
<1>5. QED
  BY <1>1, <1>2, <1>3, <1>4 DEF Count, JobEnds

LEMMA RestoredFacts ==
  ASSUME TypeOK, NEW m \in Nat
  PROVE  /\ Restored(m) \in [Tokens -> Record]
         /\ \A t \in Tokens : \/ Restored(m)[t] = stored[t] /\ ~(m # savedMark /\ Recount(stored[t]))
                             \/ /\ Restored(m)[t] = Uncounted("labelled")
                                /\ m # savedMark /\ Recount(stored[t])
BY RecordFacts DEF Restored, TypeOK

LEMMA RestartType == TypeOK /\ Restart => TypeOK'
<1> SUFFICES ASSUME TypeOK, Restart PROVE TypeOK'
  OBVIOUS
<1>1. mark' \in Nat /\ savedMark' \in Nat /\ upgrades' \in Nat /\ crashes' \in Nat
  BY DEF Restart, TypeOK
<1>2. tokens' \in [Tokens -> Record]
  BY <1>1, RestoredFacts DEF Restart
<1>3. holderQueue' \in Seq(Job)
  <2>1. holderQueue' \in Orderings(Requeued(tokens'))
    BY DEF Restart
  <2>2. QED
    BY <2>1, <1>2, RequeueFacts
<1>4. young' \subseteq Live
  BY DEF Restart
<1>5. carried' \subseteq Tokens /\ skipped' \subseteq Tokens
  BY DEF Restart, TypeOK
<1>6. flight' \in [Slots -> SUBSET Job] /\ youngHolders' = {} /\ due' = {} /\ gaveUp' = {}
  BY DEF Restart
<1>7. UNCHANGED <<stored, shows, fails, saves>>
  BY DEF Restart
<1>8. QED
  BY <1>1, <1>2, <1>3, <1>4, <1>5, <1>6, <1>7 DEF TypeOK

LEMMA NextType == TypeOK /\ [Next]_vars => TypeOK'
<1> SUFFICES ASSUME TypeOK, [Next]_vars PROVE TypeOK'
  OBVIOUS
<1>1. CASE Ingest
  BY <1>1, IngestType
<1>2. CASE Count
  BY <1>2, CountType
<1>3. CASE SaveState
  BY <1>3 DEF SaveState, TypeOK, ingest, jobs, history
<1>4. CASE Restart
  BY <1>4, RestartType
<1>5. CASE UNCHANGED vars
  BY <1>5 DEF vars, TypeOK, ingest, jobs, files, budget, history
<1>6. QED
  BY <1>1, <1>2, <1>3, <1>4, <1>5 DEF Next

(* The type invariant, for every value of the constants.                   *)
THEOREM TypeCorrect == Spec => []TypeOK
<1>1. QED
  BY InitType, NextType, PTL DEF Spec

-----------------------------------------------------------------------------
(* A labelled token without a count has a job.                             *)

(* A step that leaves the jobs alone, and no new token without a count.    *)
LEMMA JobsKept ==
  ASSUME JobInv, UNCHANGED <<holderQueue, flight, gaveUp>>,
         \A t \in Tokens : Unresolved(t)' => Unresolved(t)
  PROVE  JobInv'
BY DEF JobInv, OneJobPerSlot, LabelledHasJob, HasJob

(* A step that ends the job of slot i, having put it back or dealt with it.*)
LEMMA JobGone ==
  ASSUME TypeOK, NEW i \in Slots, NEW j \in flight[i], OneJobPerSlot,
         flight' = [flight EXCEPT ![i] = {}],
         \A k \in DOMAIN holderQueue : k \in DOMAIN holderQueue' /\ holderQueue'[k] = holderQueue[k],
         NEW t \in Tokens, HasJob(t), t # j.token
  PROVE  HasJob(t)'
<1>1. CASE \E k \in DOMAIN holderQueue : holderQueue[k].token = t
  BY <1>1 DEF HasJob
<1>2. CASE \E s \in Slots : \E k \in flight[s] : k.token = t
  <2>1. PICK s \in Slots : \E k \in flight[s] : k.token = t
    BY <1>2
  <2>2. s # i
    BY <2>1 DEF OneJobPerSlot
  <2>3. flight'[s] = flight[s]
    BY <2>2 DEF TypeOK
  <2>4. QED
    BY <2>1, <2>3 DEF HasJob
<1>3. QED
  BY <1>1, <1>2 DEF HasJob

LEMMA IngestJobs == TypeOK /\ JobInv /\ Ingest => JobInv'
<1> SUFFICES ASSUME TypeOK, JobInv, Ingest PROVE JobInv'
  OBVIOUS
<1> USE RecordFacts
<1>1. ASSUME NEW t \in Tokens, Show(t) \/ Hide(t) \/ DropStale(t) PROVE JobInv'
  <2>1. UNCHANGED <<holderQueue, flight, gaveUp>>
    BY <1>1 DEF Show, Hide, DropStale, jobs, history
  <2>2. tokens' \in {[tokens EXCEPT ![t] = Absent], [tokens EXCEPT ![t] = Uncounted("pending")]}
    BY <1>1 DEF Show, Hide, DropStale
  <2>3. \A u \in Tokens : Unresolved(u)' => Unresolved(u)
    BY <2>2 DEF TypeOK, Unresolved, StatusOf
  <2>4. QED
    BY <2>1, <2>3, JobsKept
<1>2. ASSUME NEW t \in Tokens, Mature(t) PROVE JobInv'
  <2>1. UNCHANGED <<holderQueue, flight, gaveUp, tokens>>
    BY <1>2 DEF Mature, jobs, history
  <2>2. QED
    BY <2>1, JobsKept DEF Unresolved, StatusOf
<1>3. ASSUME NEW p \in {"backfill", "slow"}, History(p) PROVE JobInv'
  <2>1. UNCHANGED <<holderQueue, flight, gaveUp, tokens>>
    BY <1>3 DEF History, jobs, history
  <2>2. QED
    BY <2>1, JobsKept DEF Unresolved, StatusOf
<1>4. ASSUME NEW t \in Tokens, NEW p \in Passes, Leave(t, p) PROVE JobInv'
  <2>1. UNCHANGED <<holderQueue, flight, gaveUp>>
    BY <1>4 DEF Leave, jobs, history
  <2>2. \A u \in Tokens : Unresolved(u)' => Unresolved(u)
    BY <1>4 DEF Leave, TypeOK, Unresolved, StatusOf
  <2>3. QED
    BY <2>1, <2>2, JobsKept
<1>5. ASSUME NEW t \in Tokens, NEW p \in Passes, Finish(t, p) PROVE JobInv'
  <2>1. UNCHANGED <<flight, gaveUp>>
    BY <1>5 DEF Finish, history
  <2>2. CASE Counted(t)
    <3>1. holderQueue' = holderQueue /\ tokens' = [tokens EXCEPT ![t] = [@ EXCEPT !.status = "labelled"]]
      BY <1>5, <2>2 DEF Finish
    <3>2. tokens[t] \in Record /\ HasCount(tokens[t])
      BY <2>2 DEF Counted, TypeOK
    <3>3. ~Awaits(tokens'[t])
      BY <3>1, <3>2 DEF TypeOK, Awaits, HasCount
    <3>4. \A u \in Tokens : Unresolved(u)' => Unresolved(u)
      BY <3>1, <3>3 DEF TypeOK, Unresolved, StatusOf
    <3>5. QED
      BY <2>1, <3>1, <3>4, JobsKept
  <2>3. CASE ~Counted(t)
    <3>1. holderQueue' = Append(holderQueue, NewJob(t)) /\ tokens' = [tokens EXCEPT ![t] = Uncounted("labelled")]
      BY <1>5, <2>3 DEF Finish
    <3>2. /\ holderQueue \in Seq(Job) /\ NewJob(t) \in Job /\ NewJob(t).token = t
          /\ Len(holderQueue) \in Nat /\ DOMAIN holderQueue = 1..Len(holderQueue)
      BY JobFacts DEF TypeOK
    <3>3. /\ DOMAIN holderQueue' = 1..(Len(holderQueue) + 1)
          /\ \A k \in 1..Len(holderQueue) : holderQueue'[k] = holderQueue[k]
          /\ holderQueue'[Len(holderQueue) + 1] = NewJob(t)
      BY <3>1, <3>2
    <3>4. HasJob(t)'
      BY <3>2, <3>3 DEF HasJob
    <3>5. \A u \in Tokens : HasJob(u) => HasJob(u)'
      BY <2>1, <3>2, <3>3 DEF HasJob
    <3>6. \A u \in Tokens : u # t => (Unresolved(u)' => Unresolved(u))
      BY <3>1 DEF TypeOK, Unresolved, StatusOf
    <3>7. LabelledHasJob'
      BY <2>1, <3>4, <3>5, <3>6 DEF LabelledHasJob, JobInv
    <3>8. QED
      BY <2>1, <3>7 DEF JobInv, OneJobPerSlot
  <2>4. QED
    BY <2>2, <2>3
<1>6. QED
  BY <1>1, <1>2, <1>3, <1>4, <1>5 DEF Ingest

(* A watched token's new job goes in front; the others keep theirs.        *)
LEMMA QueueYoungJobs ==
  ASSUME TypeOK, NEW u \in Tokens, QueueYoung(u), NEW t \in Tokens, HasJob(t) \/ t = u
  PROVE  HasJob(t)'
<1>1. flight' = flight /\ holderQueue' = <<NewJob(u)>> \o holderQueue
  BY DEF QueueYoung
<1>2. /\ holderQueue \in Seq(Job) /\ <<NewJob(u)>> \in Seq(Job)
      /\ Len(<<NewJob(u)>>) = 1 /\ NewJob(u).token = u
  BY JobFacts DEF TypeOK
<1>3. Len(holderQueue) \in Nat /\ DOMAIN holderQueue = 1..Len(holderQueue)
  BY <1>2
<1>4. /\ holderQueue' \in Seq(Job) /\ Len(holderQueue') = 1 + Len(holderQueue)
      /\ \A k \in 1..(1 + Len(holderQueue)) :
           holderQueue'[k] = IF k <= 1 THEN <<NewJob(u)>>[k] ELSE holderQueue[k - 1]
  BY <1>1, <1>2, ConcatProperties
<1>5. ASSUME NEW k \in 1..Len(holderQueue)
      PROVE  k + 1 \in DOMAIN holderQueue' /\ holderQueue'[k + 1] = holderQueue[k]
  BY <1>3, <1>4
<1>6. 1 \in DOMAIN holderQueue' /\ holderQueue'[1] = NewJob(u)
  BY <1>3, <1>4
<1>7. QED
  BY <1>1, <1>2, <1>3, <1>5, <1>6 DEF HasJob

(* A failed lookup takes a job only from its own token, and only the last  *)
(* time.                                                                   *)
LEMMA FailedJobs ==
  ASSUME TypeOK, OneJobPerSlot, NEW i \in Slots, NEW j \in flight[i], LookupFails(i, j),
         NEW t \in Tokens, HasJob(t), MayRetry(j) \/ j.token # t
  PROVE  HasJob(t)'
<1>1. flight' = [flight EXCEPT ![i] = {}] /\ j \in Job
  BY DEF LookupFails, TypeOK
<1>2. CASE MayRetry(j)
  <2>1. holderQueue' = Append(holderQueue, NextTry(j))
    BY <1>2 DEF LookupFails, BackInLine
  <2>2. /\ holderQueue \in Seq(Job) /\ NextTry(j) \in Job /\ NextTry(j).token = j.token
        /\ Len(holderQueue) \in Nat /\ DOMAIN holderQueue = 1..Len(holderQueue)
    BY <1>1, <1>2, JobFacts DEF TypeOK
  <2>3. /\ DOMAIN holderQueue' = 1..(Len(holderQueue) + 1)
        /\ \A k \in 1..Len(holderQueue) : holderQueue'[k] = holderQueue[k]
        /\ holderQueue'[Len(holderQueue) + 1] = NextTry(j)
    BY <2>1, <2>2
  <2>4. HasJob(j.token)'
    BY <2>2, <2>3 DEF HasJob
  <2>5. \A k \in DOMAIN holderQueue : k \in DOMAIN holderQueue' /\ holderQueue'[k] = holderQueue[k]
    BY <2>2, <2>3
  <2>6. t # j.token => HasJob(t)'
    BY <1>1, <2>5, JobGone
  <2>7. QED
    BY <2>4, <2>6
<1>3. CASE ~MayRetry(j)
  <2>1. holderQueue' = holderQueue
    BY <1>3 DEF LookupFails
  <2>2. QED
    BY <1>1, <1>3, <2>1, JobGone
<1>4. QED
  BY <1>2, <1>3

LEMMA CountJobs == TypeOK /\ JobInv /\ Count => JobInv'
<1> SUFFICES ASSUME TypeOK, JobInv, Count PROVE JobInv'
  OBVIOUS
<1>1. ASSUME NEW t \in Tokens, QueueYoung(t) PROVE JobInv'
  <2>1. UNCHANGED <<tokens, flight, gaveUp>>
    BY <1>1 DEF QueueYoung, history
  <2>2. \A u \in Tokens : HasJob(u) => HasJob(u)'
    BY <1>1, QueueYoungJobs
  <2>3. LabelledHasJob'
    BY <2>1, <2>2 DEF LabelledHasJob, JobInv, Unresolved, StatusOf
  <2>4. QED
    BY <2>1, <2>3 DEF JobInv, OneJobPerSlot
<1>2. ASSUME TakeBatch PROVE JobInv'
  <2>1. OneJobPerSlot' /\ \A t \in Tokens : HasJob(t) => HasJob(t)'
    BY <1>2, BatchFacts
  <2>2. UNCHANGED <<tokens, gaveUp>>
    BY <1>2 DEF TakeBatch, history
  <2>3. LabelledHasJob'
    BY <2>1, <2>2 DEF LabelledHasJob, JobInv, Unresolved, StatusOf
  <2>4. QED
    BY <2>1, <2>3 DEF JobInv
<1>3. ASSUME NEW i \in Slots, NEW j \in flight[i], Replayed(i, j) PROVE JobInv'
  <2>1. j \in Job /\ j.token \in Tokens /\ tokens[j.token] \in Record /\ mark \in Nat
    BY JobFacts DEF TypeOK
  <2>2. flight' = [flight EXCEPT ![i] = {}] /\ UNCHANGED <<holderQueue, gaveUp>>
    BY <1>3 DEF Replayed, history
  <2>3. PICK r \in {AsCounted(tokens[j.token]), AsPartial(tokens[j.token])} :
          tokens' = IF StatusOf(j.token) = "absent" THEN tokens ELSE [tokens EXCEPT ![j.token] = r]
    BY <1>3 DEF Replayed
  <2>4. ~Awaits(r)
    BY <2>1, ReplayFacts
  <2>5. ~Unresolved(j.token)'
    BY <2>1, <2>3, <2>4 DEF TypeOK, Unresolved, StatusOf
  <2>6. \A t \in Tokens : t # j.token => (Unresolved(t)' => Unresolved(t))
    BY <2>3 DEF TypeOK, Unresolved, StatusOf
  <2>7. \A t \in Tokens : t # j.token /\ HasJob(t) => HasJob(t)'
    BY <2>2, JobGone DEF JobInv
  <2>8. LabelledHasJob'
    BY <2>2, <2>5, <2>6, <2>7 DEF LabelledHasJob, JobInv
  <2>9. OneJobPerSlot'
    BY <2>2 DEF OneJobPerSlot, JobInv, TypeOK
  <2>10. QED
    BY <2>8, <2>9 DEF JobInv
<1>4. ASSUME NEW i \in Slots, NEW j \in flight[i], LookupFails(i, j) PROVE JobInv'
  <2>1. flight' = [flight EXCEPT ![i] = {}] /\ UNCHANGED tokens
    BY <1>4 DEF LookupFails
  <2>2. \A t \in Tokens : HasJob(t) => HasJob(t)' \/ t \in gaveUp'
    <3>1. ~MayRetry(j) => j.token \in gaveUp'
      BY <1>4 DEF LookupFails
    <3>2. QED
      BY <1>4, <3>1, FailedJobs DEF JobInv
  <2>3. gaveUp \subseteq gaveUp'
    BY <1>4 DEF LookupFails
  <2>4. LabelledHasJob'
    BY <2>1, <2>2, <2>3 DEF LabelledHasJob, JobInv, Unresolved, StatusOf
  <2>5. OneJobPerSlot'
    BY <2>1 DEF OneJobPerSlot, JobInv, TypeOK
  <2>6. QED
    BY <2>4, <2>5 DEF JobInv
<1>5. QED
  BY <1>1, <1>2, <1>3, <1>4 DEF Count, JobEnds

(* After a restart the queue holds every labelled token without a count.   *)
LEMMA RestartJobs == TypeOK /\ Restart => JobInv'
<1> SUFFICES ASSUME TypeOK, Restart PROVE JobInv'
  OBVIOUS
<1>1. tokens' \in [Tokens -> Record]
  BY RestartType DEF TypeOK
<1>2. holderQueue' \in Orderings(Requeued(tokens'))
  BY DEF Restart
<1>3. \A t \in Tokens : tokens'[t].status = "labelled" /\ Awaits(tokens'[t]) =>
        \E i \in DOMAIN holderQueue' : holderQueue'[i].token = t
  BY <1>1, <1>2, RequeueFacts
<1>4. LabelledHasJob'
  BY <1>3 DEF LabelledHasJob, HasJob, Unresolved, StatusOf, Awaits
<1>5. OneJobPerSlot'
  BY DEF OneJobPerSlot, Restart
<1>6. QED
  BY <1>4, <1>5 DEF JobInv

LEMMA NextJobs == TypeOK /\ JobInv /\ [Next]_vars => JobInv'
<1> SUFFICES ASSUME TypeOK, JobInv, [Next]_vars PROVE JobInv'
  OBVIOUS
<1>1. CASE Ingest
  BY <1>1, IngestJobs
<1>2. CASE Count
  BY <1>2, CountJobs
<1>3. CASE SaveState
  <2>1. UNCHANGED <<holderQueue, flight, gaveUp, tokens>>
    BY <1>3 DEF SaveState, jobs, history
  <2>2. QED
    BY <2>1, JobsKept DEF Unresolved, StatusOf
<1>4. CASE Restart
  BY <1>4, RestartJobs
<1>5. CASE UNCHANGED vars
  <2>1. UNCHANGED <<holderQueue, flight, gaveUp, tokens>>
    BY <1>5 DEF vars, jobs, history
  <2>2. QED
    BY <2>1, JobsKept DEF Unresolved, StatusOf
<1>6. QED
  BY <1>1, <1>2, <1>3, <1>4, <1>5 DEF Next

(* A labelled token without a count has a job that will bring one, however *)
(* the watch list, the labels, the failed lookups and the restarts         *)
(* interleave, unless it was given up on.                                  *)
THEOREM NoLabelForgotten == Spec => []LabelledHasJob
<1>1. Init => JobInv
  <2>1. Init => \A t \in Tokens : ~Unresolved(t)
    BY RecordFacts DEF Init, Unresolved, StatusOf
  <2>2. QED
    BY <2>1 DEF Init, JobInv, OneJobPerSlot, LabelledHasJob
<1>2. JobInv => LabelledHasJob
  BY DEF JobInv
<1>3. QED
  BY <1>1, <1>2, NextJobs, TypeCorrect, PTL DEF Spec

-----------------------------------------------------------------------------
(* Counts of one hour mark.                                                *)

(* A step changes the record of one token, and keeps the marks.            *)
LEMMA OneRecord ==
  ASSUME TypeOK, MarkInv, UNCHANGED <<mark, savedMark, stored, carried, skipped>>,
         NEW t \in Tokens, NEW r \in Record, tokens' = [tokens EXCEPT ![t] = r],
         \/ ~HasCount(r)
         \/ r.status # "absent" /\ r.mark = mark
         \/ /\ r.status \in {tokens[t].status, "labelled"} /\ tokens[t].status # "absent"
            /\ r.missing = tokens[t].missing /\ r.partial = tokens[t].partial /\ r.mark = tokens[t].mark
  PROVE  MarkInv'
<1>1. tokens[t] \in Record
  BY DEF TypeOK
<1>2. AbsentIsBare'
  BY <1>1 DEF MarkInv, AbsentIsBare, TypeOK, Record, HasCount
<1>3. OldCounts'
  <2>1. ASSUME NEW u \in Tokens, u # t
        PROVE  tokens'[u] = tokens[u] /\ (Old(tokens[u])' <=> Old(tokens[u])) /\ (Old(stored[u])' <=> Old(stored[u]))
    BY <2>1 DEF TypeOK, Old, HasCount
  <2>2. tokens'[t] = r /\ (Old(stored[t])' <=> Old(stored[t]))
    BY DEF TypeOK, Old, HasCount
  <2>3. Old(tokens[t])' <=> HasCount(r) /\ r.mark # mark
    BY <2>2 DEF Old, HasCount
  <2>4. Old(tokens[t])' => /\ Old(tokens[t]) /\ r.status \in {tokens[t].status, "labelled"}
                           /\ tokens[t].status \in {"pending", "labelled"}
    BY <2>3, <1>1 DEF Old, HasCount, Record
  <2>5. QED
    BY <2>1, <2>2, <2>4 DEF MarkInv, OldCounts
<1>4. QED
  BY <1>2, <1>3 DEF MarkInv

(* A step that changes no record.                                          *)
LEMMA NoRecord ==
  ASSUME MarkInv, UNCHANGED <<tokens, mark, savedMark, stored, carried, skipped>>
  PROVE  MarkInv'
BY DEF MarkInv, AbsentIsBare, OldCounts, Old, HasCount

LEMMA IngestMarks == TypeOK /\ MarkInv /\ Ingest => MarkInv'
<1> SUFFICES ASSUME TypeOK, MarkInv, Ingest PROVE MarkInv'
  OBVIOUS
<1> USE RecordFacts
<1>1. UNCHANGED <<mark, savedMark, stored, carried, skipped>>
  BY DEF Ingest, Show, Hide, DropStale, Mature, History, Finish, Leave, files, history
<1>2. ASSUME NEW t \in Tokens, Show(t) \/ Hide(t) \/ DropStale(t) PROVE MarkInv'
  <2>1. PICK r \in {Absent, Uncounted("pending")} : tokens' = [tokens EXCEPT ![t] = r]
    BY <1>2 DEF Show, Hide, DropStale
  <2>2. r \in Record /\ ~HasCount(r)
    OBVIOUS
  <2>3. QED
    BY <1>1, <2>1, <2>2, OneRecord
<1>3. ASSUME NEW t \in Tokens, Mature(t) PROVE MarkInv'
  <2>1. UNCHANGED tokens
    BY <1>3 DEF Mature
  <2>2. QED
    BY <1>1, <2>1, NoRecord
<1>4. ASSUME NEW p \in {"backfill", "slow"}, History(p) PROVE MarkInv'
  <2>1. UNCHANGED tokens
    BY <1>4 DEF History
  <2>2. QED
    BY <1>1, <2>1, NoRecord
<1>5. ASSUME NEW t \in Tokens, NEW p \in Passes, Finish(t, p) PROVE MarkInv'
  <2>1. CASE Counted(t)
    <3> DEFINE r == [tokens[t] EXCEPT !.status = "labelled"]
    <3>1. tokens[t] \in Record /\ tokens[t].status = "pending"
      BY <2>1 DEF TypeOK, Counted, StatusOf
    <3>2. tokens' = [tokens EXCEPT ![t] = r]
      BY <1>5, <2>1 DEF Finish
    <3>3. /\ r \in Record /\ r.status = "labelled"
          /\ r.missing = tokens[t].missing /\ r.partial = tokens[t].partial /\ r.mark = tokens[t].mark
      BY <3>1
    <3>4. QED
      BY <1>1, <3>1, <3>2, <3>3, OneRecord
  <2>2. CASE ~Counted(t)
    <3>1. tokens' = [tokens EXCEPT ![t] = Uncounted("labelled")]
      BY <1>5, <2>2 DEF Finish
    <3>2. QED
      BY <1>1, <3>1, OneRecord
  <2>3. QED
    BY <2>1, <2>2
<1>6. ASSUME NEW t \in Tokens, NEW p \in Passes, Leave(t, p) PROVE MarkInv'
  <2>1. CASE tokens[t].status = "pending"
    <3>1. tokens' = [tokens EXCEPT ![t] = Absent]
      BY <1>6, <2>1 DEF Leave
    <3>2. QED
      BY <1>1, <3>1, OneRecord
  <2>2. CASE tokens[t].status # "pending"
    <3>1. UNCHANGED tokens
      BY <1>6, <2>2 DEF Leave, TypeOK
    <3>2. QED
      BY <1>1, <3>1, NoRecord
  <2>3. QED
    BY <2>1, <2>2
<1>7. QED
  BY <1>2, <1>3, <1>4, <1>5, <1>6 DEF Ingest

LEMMA CountMarks == TypeOK /\ MarkInv /\ Count => MarkInv'
<1> SUFFICES ASSUME TypeOK, MarkInv, Count PROVE MarkInv'
  OBVIOUS
<1>1. UNCHANGED <<mark, savedMark, stored, carried, skipped>>
  BY DEF Count, QueueYoung, TakeBatch, JobEnds, Replayed, LookupFails, files, history
<1>2. CASE UNCHANGED tokens
  BY <1>1, <1>2, NoRecord
<1>3. ASSUME NEW i \in Slots, NEW j \in flight[i], Replayed(i, j) PROVE MarkInv'
  <2>1. j.token \in Tokens /\ tokens[j.token] \in Record /\ mark \in Nat
    BY JobFacts DEF TypeOK
  <2>2. PICK r \in {AsCounted(tokens[j.token]), AsPartial(tokens[j.token])} :
          tokens' = IF StatusOf(j.token) = "absent" THEN tokens ELSE [tokens EXCEPT ![j.token] = r]
    BY <1>3 DEF Replayed
  <2>3. r \in Record /\ r.status = tokens[j.token].status /\ r.mark = mark
    BY <2>1, ReplayFacts
  <2>4. CASE StatusOf(j.token) = "absent"
    BY <2>2, <2>4, <1>1, NoRecord
  <2>5. CASE StatusOf(j.token) # "absent"
    <3>1. tokens' = [tokens EXCEPT ![j.token] = r] /\ r.status # "absent"
      BY <2>2, <2>3, <2>5 DEF StatusOf
    <3>2. QED
      BY <1>1, <2>1, <2>3, <3>1, OneRecord
  <2>6. QED
    BY <2>4, <2>5
<1>4. UNCHANGED tokens \/ \E i \in Slots : \E j \in flight[i] : Replayed(i, j)
  BY DEF Count, QueueYoung, TakeBatch, JobEnds, LookupFails
<1>5. QED
  BY <1>2, <1>3, <1>4

(* state.json takes over what memory holds.                                *)
LEMMA SaveMarks == TypeOK /\ MarkInv /\ SaveState => MarkInv'
<1> SUFFICES ASSUME TypeOK, MarkInv, SaveState PROVE MarkInv'
  OBVIOUS
<1>1. stored' = tokens /\ UNCHANGED <<tokens, mark, savedMark, carried, skipped>>
  BY DEF SaveState, history
<1>2. QED
  BY <1>1 DEF MarkInv, AbsentIsBare, OldCounts, Old, HasCount

LEMMA RestartMarks == TypeOK /\ MarkInv /\ Restart => MarkInv'
<1> SUFFICES ASSUME TypeOK, MarkInv, Restart PROVE MarkInv'
  OBVIOUS
<1> USE RecordFacts
<1>1. /\ mark' \in Nat /\ savedMark' = mark' /\ stored' = stored
      /\ tokens' = Restored(mark')
      /\ carried' = carried \cup {t \in Tokens : stored[t].status = "pending" /\ HasCount(stored[t])
                                                 /\ mark' # savedMark}
      /\ skipped' = skipped \cup {t \in Tokens : Recount(stored[t]) /\ stored[t].mark # mark'
                                                 /\ mark' = savedMark}
  BY DEF Restart, TypeOK
<1>2. savedMark = mark
  BY DEF MarkInv
<1>3. ASSUME NEW t \in Tokens
      PROVE  /\ stored[t].status = "absent" => ~HasCount(stored[t])
             /\ HasCount(stored[t]) /\ stored[t].mark # mark' /\ stored[t].status = "pending" => t \in carried'
    BY <1>1, <1>2 DEF MarkInv, AbsentIsBare, OldCounts, Old
<1>4. ASSUME NEW t \in Tokens
      PROVE  /\ tokens'[t].status = "absent" => ~HasCount(tokens'[t])
             /\ HasCount(tokens'[t]) /\ tokens'[t].mark # mark' /\ tokens'[t].status = "pending" => t \in carried'
             /\ HasCount(tokens'[t]) /\ tokens'[t].mark # mark' /\ tokens'[t].status = "labelled"
                  => t \in carried' \cup skipped'
  <2>1. CASE tokens'[t] = Uncounted("labelled")
    BY <2>1
  <2>2. CASE tokens'[t] = stored[t] /\ ~(mark' # savedMark /\ Recount(stored[t]))
    BY <2>2, <1>1, <1>3 DEF Recount
  <2>3. QED
    BY <2>1, <2>2, <1>1, RestoredFacts
<1>5. AbsentIsBare'
  BY <1>1, <1>3, <1>4 DEF AbsentIsBare, HasCount
<1>6. OldCounts'
  BY <1>1, <1>3, <1>4 DEF OldCounts, Old, HasCount
<1>7. QED
  BY <1>1, <1>5, <1>6 DEF MarkInv

LEMMA NextMarks == TypeOK /\ MarkInv /\ [Next]_vars => MarkInv'
<1> SUFFICES ASSUME TypeOK, MarkInv, [Next]_vars PROVE MarkInv'
  OBVIOUS
<1>1. CASE UNCHANGED vars
  BY <1>1, NoRecord DEF vars, files, history
<1>2. QED
  BY <1>1, IngestMarks, CountMarks, SaveMarks, RestartMarks DEF Next

(* Every count in training is of the running program's hour mark, with the *)
(* two exceptions, through any number of restarts and hour marks.          *)
THEOREM OneMark == Spec => []CountsAtOneMark
<1>1. Init => MarkInv
  <2>1. ASSUME Init, NEW t \in Tokens
        PROVE  ~HasCount(tokens[t]) /\ ~HasCount(stored[t])
    BY <2>1, RecordFacts DEF Init
  <2>2. QED
    BY <2>1 DEF Init, MarkInv, AbsentIsBare, OldCounts, Old
<1>2. MarkInv => CountsAtOneMark
  BY DEF MarkInv, OldCounts, Old, CountsAtOneMark, AtMark, StatusOf
<1>3. QED
  BY <1>1, <1>2, NextMarks, TypeCorrect, PTL DEF Spec

-----------------------------------------------------------------------------
(* Counts that stay.                                                       *)

LEMMA IngestVenue == TypeOK /\ VenueInv /\ Ingest => VenueInv'
<1> SUFFICES ASSUME TypeOK, VenueInv, Ingest PROVE VenueInv'
  OBVIOUS
<1> USE RecordFacts
<1>1. ASSUME NEW t \in Tokens, Show(t) \/ Hide(t) \/ DropStale(t) PROVE VenueInv'
  <2>1. tokens' \in {[tokens EXCEPT ![t] = Absent], [tokens EXCEPT ![t] = Uncounted("pending")]} /\ due' = due
    BY <1>1 DEF Show, Hide, DropStale, ingest
  <2>2. QED
    BY <2>1 DEF VenueInv, StatusOf, TypeOK
<1>2. ASSUME NEW t \in Tokens, Mature(t) PROVE VenueInv'
  <2>1. UNCHANGED tokens /\ due' = due \cup (IF StatusOf(t) = "labelled" THEN {} ELSE {<<t, "live">>})
    BY <1>2 DEF Mature
  <2>2. "live" \in Passed(t)
    BY <1>2 DEF Mature, TypeOK, Passed
  <2>3. QED
    BY <2>1, <2>2 DEF VenueInv, StatusOf
<1>3. ASSUME NEW p \in {"backfill", "slow"}, History(p) PROVE VenueInv'
  <2>1. PICK S \in SUBSET {t \in Tokens : p \in Passed(t) /\ StatusOf(t) # "labelled"} :
          due' = {<<t, p>> : t \in S} \cup due
    BY <1>3 DEF History
  <2>2. UNCHANGED tokens
    BY <1>3 DEF History
  <2>3. QED
    BY <2>1, <2>2 DEF VenueInv, StatusOf
<1>4. ASSUME NEW t \in Tokens, NEW p \in Passes, Finish(t, p) PROVE VenueInv'
  <2>1. due' = due \ {<<t, p>>} /\ <<t, p>> \in due
    BY <1>4 DEF Finish
  <2>2. \A u \in Tokens : u # t => tokens'[u] = tokens[u]
    BY <1>4 DEF Finish, TypeOK
  <2>3. t \in Tokens \ TwoVenues => \A q \in Passes : q \in Passed(t) => q = p
    BY <2>1 DEF VenueInv, Passed
  <2>4. QED
    BY <2>1, <2>2, <2>3 DEF VenueInv, StatusOf
<1>5. ASSUME NEW t \in Tokens, NEW p \in Passes, Leave(t, p) PROVE VenueInv'
  BY <1>5 DEF Leave, VenueInv, StatusOf, TypeOK
<1>6. QED
  BY <1>1, <1>2, <1>3, <1>4, <1>5 DEF Ingest

LEMMA CountVenue == TypeOK /\ VenueInv /\ Count => VenueInv'
<1> SUFFICES ASSUME TypeOK, VenueInv, Count PROVE VenueInv'
  OBVIOUS
<1>1. due' = due
  BY DEF Count, QueueYoung, TakeBatch, JobEnds, Replayed, LookupFails, ingest
<1>2. CASE UNCHANGED tokens
  BY <1>1, <1>2 DEF VenueInv, StatusOf
<1>3. ASSUME NEW i \in Slots, NEW j \in flight[i], Replayed(i, j) PROVE VenueInv'
  <2>1. j.token \in Tokens /\ tokens[j.token] \in Record /\ mark \in Nat
    BY JobFacts DEF TypeOK
  <2>2. PICK r \in {AsCounted(tokens[j.token]), AsPartial(tokens[j.token])} :
          tokens' = IF StatusOf(j.token) = "absent" THEN tokens ELSE [tokens EXCEPT ![j.token] = r]
    BY <1>3 DEF Replayed
  <2>3. r.status = tokens[j.token].status
    BY <2>1, ReplayFacts
  <2>4. \A t \in Tokens : tokens'[t].status = tokens[t].status
    BY <2>1, <2>2, <2>3 DEF TypeOK
  <2>5. QED
    BY <1>1, <2>4 DEF VenueInv, StatusOf
<1>4. UNCHANGED tokens \/ \E i \in Slots : \E j \in flight[i] : Replayed(i, j)
  BY DEF Count, QueueYoung, TakeBatch, JobEnds, LookupFails
<1>5. QED
  BY <1>2, <1>3, <1>4

LEMMA NextVenue == TypeOK /\ VenueInv /\ [Next]_vars => VenueInv'
<1> SUFFICES ASSUME TypeOK, VenueInv, [Next]_vars PROVE VenueInv'
  OBVIOUS
<1>1. CASE SaveState \/ UNCHANGED vars
  BY <1>1 DEF SaveState, vars, ingest, VenueInv, StatusOf
<1>2. CASE Restart
  BY <1>2 DEF Restart, VenueInv
<1>3. QED
  BY <1>1, <1>2, IngestVenue, CountVenue DEF Next

(* What each step does to a count in training.                             *)
LEMMA CountKept ==
  ASSUME TypeOK, VenueInv, Ingest \/ Count \/ SaveState \/ UNCHANGED vars,
         NEW t \in Tokens \ TwoVenues, StatusOf(t) = "labelled", ~tokens[t].missing
  PROVE  ~(tokens'[t].missing)
<1>1. ASSUME NEW u \in Tokens, Show(u) \/ Hide(u) \/ DropStale(u)
      PROVE  tokens'[t] = tokens[t]
  BY <1>1 DEF Show, Hide, DropStale, StatusOf, TypeOK
<1>2. ASSUME NEW u \in Tokens, NEW p \in Passes, Finish(u, p) \/ Leave(u, p)
      PROVE  tokens'[t] = tokens[t]
  <2>1. u # t \/ Leave(u, p)
    BY <1>2 DEF Finish, VenueInv
  <2>2. QED
    BY <1>2, <2>1 DEF Finish, Leave, StatusOf, TypeOK
<1>3. ASSUME NEW i \in Slots, NEW j \in flight[i], Replayed(i, j)
      PROVE  ~(tokens'[t].missing)
  <2>1. j.token \in Tokens
    BY JobFacts DEF TypeOK
  <2>2. PICK r \in {AsCounted(tokens[j.token]), AsPartial(tokens[j.token])} :
          tokens' = IF StatusOf(j.token) = "absent" THEN tokens ELSE [tokens EXCEPT ![j.token] = r]
    BY <1>3 DEF Replayed
  <2>3. tokens[t] \in Record /\ tokens[j.token] \in Record
    BY <2>1 DEF TypeOK
  <2>4. j.token = t => ~r.missing
    BY <2>3 DEF AsCounted, AsPartial, Record
  <2>5. QED
    BY <2>1, <2>2, <2>4 DEF TypeOK
<1>4. CASE UNCHANGED tokens
  BY <1>4
<1>5. QED
  BY <1>1, <1>2, <1>3, <1>4 DEF Ingest, Count, JobEnds, Mature, History, QueueYoung, TakeBatch,
                                LookupFails, SaveState, vars

(* A token of one venue that trains keeps training.                        *)
THEOREM CountsKept == Spec => CountsStay
<1>1. Init => VenueInv
  BY DEF Init, VenueInv
<1>2. TypeOK /\ VenueInv /\ [Next]_vars =>
        [crashes' = crashes =>
           \A t \in Tokens \ TwoVenues :
             StatusOf(t) = "labelled" /\ ~tokens[t].missing => ~(tokens'[t].missing)]_vars
  <2> SUFFICES ASSUME TypeOK, VenueInv, [Next]_vars, crashes' = crashes,
                      NEW t \in Tokens \ TwoVenues, StatusOf(t) = "labelled", ~tokens[t].missing
               PROVE  ~(tokens'[t].missing)
    OBVIOUS
  <2>1. ~Restart
    BY DEF Restart, TypeOK
  <2>2. QED
    BY <2>1, CountKept DEF Next
<1>3. QED
  BY <1>1, <1>2, NextVenue, TypeCorrect, PTL DEF Spec, CountsStay

-----------------------------------------------------------------------------
(* What youngHolders says of the curves on the watch list.                 *)

(* No pass holds a young token, and a young curve stays on the watch list  *)
(* once it was queued.                                                     *)
CurveInv ==
  /\ \A t \in young, p \in Passes : <<t, p>> \notin due
  /\ \A t \in youngHolders \cap Curves \cap young : StatusOf(t) # "absent" /\ QueuedOrTaken(t)

(* Nothing changes for a token whose record and jobs stay.                 *)
LEMMA CurveKept ==
  ASSUME CurveInv, NEW t \in youngHolders \cap Curves \cap young,
         tokens'[t] = tokens[t], HasJob(t) => HasJob(t)'
  PROVE  StatusOf(t)' # "absent" /\ QueuedOrTaken(t)'
BY DEF CurveInv, QueuedOrTaken, StatusOf

LEMMA IngestCurves == TypeOK /\ CurveInv /\ Ingest => CurveInv'
<1> SUFFICES ASSUME TypeOK, CurveInv, Ingest PROVE CurveInv'
  OBVIOUS
<1> USE RecordFacts
<1>1. ASSUME NEW t \in young', NEW p \in Passes PROVE <<t, p>> \notin due'
  <2>1. t \in young /\ t \in Live
    BY <1>1 DEF Ingest, Show, Hide, DropStale, Mature, Finish, Leave, History, ingest, TypeOK
  <2>2. <<t, p>> \notin due
    BY <2>1 DEF CurveInv
  <2>3. ASSUME NEW u \in Tokens, Mature(u) PROVE <<t, p>> \notin due'
    <3>1. t # u
      BY <1>1, <2>3 DEF Mature
    <3>2. QED
      BY <2>2, <2>3, <3>1 DEF Mature
  <2>4. ASSUME NEW q \in {"backfill", "slow"}, History(q) PROVE <<t, p>> \notin due'
    <3>1. q \notin Passed(t)
      BY <2>1 DEF Passed
    <3>2. QED
      BY <2>2, <2>4, <3>1 DEF History
  <2>5. ASSUME NEW u \in Tokens, Show(u) \/ Hide(u) \/ DropStale(u) PROVE due' = due
    BY <2>5 DEF Show, Hide, DropStale, ingest
  <2>6. ASSUME NEW u \in Tokens, NEW q \in Passes, Finish(u, q) \/ Leave(u, q) PROVE due' \subseteq due
    BY <2>6 DEF Finish, Leave
  <2>7. QED
    BY <2>2, <2>3, <2>4, <2>5, <2>6 DEF Ingest
<1>2. ASSUME NEW t \in youngHolders' \cap Curves \cap young'
      PROVE  StatusOf(t)' # "absent" /\ QueuedOrTaken(t)'
  <2>0. t \in youngHolders \cap Curves \cap young /\ t \in Tokens /\ flight' = flight
    BY <1>2, Constants DEF Ingest, Show, Hide, DropStale, Mature, Finish, Leave, History, ingest, jobs, TypeOK
  <2>1. StatusOf(t) # "absent" /\ \A p \in Passes : <<t, p>> \notin due
    BY <2>0 DEF CurveInv
  <2>2. ASSUME NEW u \in Tokens, Show(u) \/ Hide(u) \/ Mature(u) PROVE tokens'[t] = tokens[t] /\ holderQueue' = holderQueue
    BY <2>0, <2>1, <2>2 DEF Show, Hide, Mature, jobs, TypeOK
  <2>3. ASSUME NEW u \in Tokens, DropStale(u) PROVE tokens'[t] = tokens[t] /\ holderQueue' = holderQueue
    BY <1>2, <2>0, <2>3 DEF DropStale, TypeOK
  <2>4. ASSUME NEW u \in Tokens, NEW p \in Passes, Finish(u, p) PROVE tokens'[t] = tokens[t] /\ (HasJob(t) => HasJob(t)')
    <3>1. u # t
      BY <2>1, <2>4 DEF Finish
    <3>2. /\ holderQueue \in Seq(Job) /\ NewJob(u) \in Job
          /\ Len(holderQueue) \in Nat /\ DOMAIN holderQueue = 1..Len(holderQueue)
      BY JobFacts DEF TypeOK
    <3>3. \A k \in DOMAIN holderQueue : k \in DOMAIN holderQueue' /\ holderQueue'[k] = holderQueue[k]
      <4>1. CASE holderQueue' = holderQueue
        BY <4>1
      <4>2. CASE holderQueue' = Append(holderQueue, NewJob(u))
        BY <3>2, <4>2
      <4>3. QED
        BY <2>4, <4>1, <4>2 DEF Finish
    <3>4. tokens'[t] = tokens[t]
      BY <2>0, <2>4, <3>1 DEF Finish, TypeOK
    <3>5. QED
      BY <2>0, <3>3, <3>4 DEF HasJob
  <2>5. ASSUME NEW u \in Tokens, NEW p \in Passes, Leave(u, p) PROVE tokens'[t] = tokens[t] /\ holderQueue' = holderQueue
    BY <2>0, <2>1, <2>5 DEF Leave, jobs, TypeOK
  <2>6. ASSUME NEW p \in {"backfill", "slow"}, History(p) PROVE tokens'[t] = tokens[t] /\ holderQueue' = holderQueue
    BY <2>6 DEF History, jobs
  <2>7. holderQueue' = holderQueue => (HasJob(t) => HasJob(t)')
    BY <2>0 DEF HasJob
  <2>8. tokens'[t] = tokens[t] /\ (HasJob(t) => HasJob(t)')
    BY <2>2, <2>3, <2>4, <2>5, <2>6, <2>7 DEF Ingest
  <2>9. QED
    BY <2>0, <2>8, CurveKept
<1>3. QED
  BY <1>1, <1>2 DEF CurveInv

LEMMA CountCurves == TypeOK /\ JobInv /\ CurveInv /\ Count => CurveInv'
<1> SUFFICES ASSUME TypeOK, JobInv, CurveInv, Count PROVE CurveInv'
  OBVIOUS
<1>1. young' = young /\ due' = due
  BY DEF Count, JobEnds, QueueYoung, TakeBatch, Replayed, LookupFails, ingest
<1>2. ASSUME NEW t \in youngHolders' \cap Curves \cap young
      PROVE  StatusOf(t)' # "absent" /\ QueuedOrTaken(t)'
  <2>0. t \in Tokens /\ (t \in youngHolders => t \in youngHolders \cap Curves \cap young)
    BY <1>2, Constants DEF TypeOK
  <2>1. ASSUME NEW u \in Tokens, QueueYoung(u) PROVE StatusOf(t)' # "absent" /\ QueuedOrTaken(t)'
    <3>1. tokens' = tokens /\ youngHolders' = youngHolders \cup {u} /\ StatusOf(u) = "pending"
      BY <2>1 DEF QueueYoung
    <3>2. HasJob(t) \/ t = u => HasJob(t)'
      BY <2>0, <2>1, QueueYoungJobs
    <3>3. CASE t = u
      BY <3>1, <3>2, <3>3 DEF StatusOf, QueuedOrTaken
    <3>4. CASE t # u
      BY <1>2, <2>0, <3>1, <3>2, <3>4, CurveKept
    <3>5. QED
      BY <3>3, <3>4
  <2>2. CASE TakeBatch
    <3>1. UNCHANGED <<tokens, youngHolders>>
      BY <2>2 DEF TakeBatch
    <3>2. HasJob(t) => HasJob(t)'
      BY <2>0, <2>2, BatchFacts
    <3>3. QED
      BY <1>2, <2>0, <3>1, <3>2, CurveKept
  <2>3. ASSUME NEW i \in Slots, NEW j \in flight[i], Replayed(i, j) PROVE StatusOf(t)' # "absent" /\ QueuedOrTaken(t)'
    <3>1. t \in youngHolders /\ flight' = [flight EXCEPT ![i] = {}] /\ holderQueue' = holderQueue
      BY <1>2, <2>3 DEF Replayed
    <3>2. j.token \in Tokens /\ tokens[j.token] \in Record /\ mark \in Nat
      BY JobFacts DEF TypeOK
    <3>3. PICK r \in {AsCounted(tokens[j.token]), AsPartial(tokens[j.token])} :
            tokens' = IF StatusOf(j.token) = "absent" THEN tokens ELSE [tokens EXCEPT ![j.token] = r]
      BY <2>3 DEF Replayed
    <3>4. r.status = tokens[j.token].status /\ HasCount(r)
      BY <3>2, ReplayFacts
    <3>5. CASE j.token = t
      <4>1. StatusOf(t) # "absent"
        BY <2>0, <3>1 DEF CurveInv
      <4>2. tokens'[t] = r
        BY <2>0, <3>3, <3>5, <4>1 DEF TypeOK
      <4>3. QED
        BY <3>4, <3>5, <4>1, <4>2 DEF StatusOf, QueuedOrTaken
    <3>6. CASE j.token # t
      <4>1. tokens'[t] = tokens[t]
        BY <2>0, <3>3, <3>6 DEF TypeOK
      <4>2. HasJob(t) => HasJob(t)'
        BY <2>0, <3>1, <3>6, JobGone DEF JobInv
      <4>3. QED
        BY <2>0, <3>1, <4>1, <4>2, CurveKept
    <3>7. QED
      BY <3>5, <3>6
  <2>4. ASSUME NEW i \in Slots, NEW j \in flight[i], LookupFails(i, j) PROVE StatusOf(t)' # "absent" /\ QueuedOrTaken(t)'
    <3>1. tokens' = tokens /\ t \in youngHolders /\ (MayRetry(j) \/ j.token # t)
      BY <1>2, <2>4 DEF LookupFails, NoLongerYoung
    <3>2. HasJob(t) => HasJob(t)'
      BY <2>0, <2>4, <3>1, FailedJobs DEF JobInv
    <3>3. QED
      BY <2>0, <3>1, <3>2, CurveKept
  <2>5. QED
    BY <2>1, <2>2, <2>3, <2>4 DEF Count, JobEnds
<1>3. QED
  BY <1>1, <1>2 DEF CurveInv

LEMMA NextCurves == TypeOK /\ JobInv /\ CurveInv /\ [Next]_vars => CurveInv'
<1> SUFFICES ASSUME TypeOK, JobInv, CurveInv, [Next]_vars PROVE CurveInv'
  OBVIOUS
<1>1. CASE SaveState \/ UNCHANGED vars
  <2>1. UNCHANGED <<tokens, young, due, holderQueue, flight, youngHolders>>
    BY <1>1 DEF SaveState, vars, ingest, jobs
  <2>2. QED
    BY <2>1 DEF CurveInv, QueuedOrTaken, HasJob, StatusOf
<1>2. CASE Restart
  BY <1>2 DEF Restart, CurveInv
<1>3. QED
  BY <1>1, <1>2, IngestCurves, CountCurves DEF Next

(* A young curve the code believes queued or taken has a job, waiting or   *)
(* in the batch, or its count; whatever is dropped, hidden, labelled or    *)
(* restarted meanwhile (chain.ts, queueYoungHolders and dropStale).        *)
THEOREM WatchedNeverForgotten == Spec => []WatchedCurvesQueued
<1>1. Init => JobInv /\ CurveInv
  <2>1. Init => \A t \in Tokens : ~Unresolved(t)
    BY RecordFacts DEF Init, Unresolved, StatusOf
  <2>2. QED
    BY <2>1 DEF Init, JobInv, OneJobPerSlot, LabelledHasJob, CurveInv
<1>2. CurveInv => WatchedCurvesQueued
  BY DEF CurveInv, WatchedCurvesQueued
<1>3. QED
  BY <1>1, <1>2, NextJobs, NextCurves, TypeCorrect, PTL DEF Spec
=============================================================================
