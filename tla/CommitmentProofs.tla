--------------------------- MODULE CommitmentProofs ---------------------------
(***************************************************************************)
(* Proofs about Commitments, for any personas, names, tokens, caps and     *)
(* bounds: its types, that what is kept is in the log, that it implements  *)
(* CommitReveal, that no theft of a kept commitment goes unrecorded, and   *)
(* what its lists of thefts and revisions say.                             *)
(***************************************************************************)
EXTENDS Commitments, TLAPS, SequenceTheorems, FiniteSetTheorems, WellFoundedInduction

-----------------------------------------------------------------------------
(* The inductive invariants.                                               *)

(* Cycles are kept in the order they were written, none from the future.   *)
InOrder(l) == \A i, j \in DOMAIN l.cycles : /\ i <= j => l.cycles[i].at <= l.cycles[j].at
                                            /\ l.cycles[i].at <= clock
LedgersInOrder == \A p \in Personas : InOrder(ledgers[p]) /\ InOrder(stored.ledgers[p])

(* RetainedTheftsNoted for a given agent: the running one, or the saved.   *)
Noted(ls, ts) ==
  \A p \in Personas, t \in Tokens \ renamed : ts[t].status # "absent" =>
    \A c \in Retained(ls[p]) :
      ts[t].name \in c.names /\ Launched[t] > c.at => ts[t].name \in ls[p].stolen

TheftInv == LedgersInOrder /\ Noted(ledgers, tokens) /\ Noted(stored.ledgers, stored.tokens)

(* A crash takes no name out of the theft record that state.json has.      *)
StolenKept == \A p \in Personas : stored.ledgers[p].stolen \subseteq ledgers[p].stolen

LogInv == LedgerWithinLog /\ ServedWasLogged

-----------------------------------------------------------------------------
(* Facts about numbers and sequences.                                      *)

(* Of a set of numbers that is not empty, one is the least.                *)
LEMMA LeastExists ==
  ASSUME NEW S \in SUBSET Nat, S # {}
  PROVE  \E i \in S : \A j \in S : i <= j
<1>1. PICK i \in S : \A j \in S : ~ (<<j, i>> \in OpToRel(<, Nat))
  BY NatLessThanWellFounded, WFMin
<1>2. ASSUME NEW j \in S, j < i PROVE FALSE
  <2>1. <<j, i>> \in OpToRel(<, Nat)
    BY <1>2 DEF OpToRel
  <2> QED BY <1>1, <2>1, Zenon
<1> QED BY <1>2

LEMMA NewestType ==
  ASSUME NEW S, NEW s \in Seq(S), NEW cap \in Nat
  PROVE  Newest(s, cap) \in Seq(S)
<1>1. CASE Len(s) > cap
  <2>1. \A i \in 1..cap : s[i] \in S
    BY <1>1, ElementOfSeq
  <2>2. SubSeq(s, 1, cap) \in Seq(S)
    BY <2>1, SubSeqProperties
  <2> QED BY <1>1, <2>2 DEF Newest
<1>2. CASE ~ (Len(s) > cap)
  BY <1>2 DEF Newest
<1> QED BY <1>1, <1>2

(* q is s and e, less perhaps the first.                                   *)
Pushed(q, s, e) ==
  \E d \in {0, 1} : /\ Len(q) = Len(s) + 1 - d
                    /\ \A i \in 1..Len(q) : q[i] = IF i + d <= Len(s) THEN s[i + d] ELSE e

LEMMA LatestFacts ==
  ASSUME NEW S, NEW s \in Seq(S), NEW e \in S, NEW cap \in Nat,
         NEW q, q = Latest(Append(s, e), cap)
  PROVE  q \in Seq(S) /\ Pushed(q, s, e)
<1> DEFINE a == Append(s, e)
<1>1. a \in Seq(S) /\ Len(a) = Len(s) + 1
      /\ \A i \in 1..Len(a) : a[i] = IF i <= Len(s) THEN s[i] ELSE e
  BY AppendProperties
<1>2. CASE Len(a) > cap
  <2>1. a # <<>>
    BY <1>1
  <2>2. Tail(a) \in Seq(S) /\ Len(Tail(a)) = Len(a) - 1 /\ \A i \in 1..Len(Tail(a)) : Tail(a)[i] = a[i + 1]
    BY <1>1, <2>1, HeadTailProperties
  <2>3. Len(s) \in Nat
    BY LenProperties
  <2>4. /\ Len(Tail(a)) = Len(s) + 1 - 1
        /\ \A i \in 1..Len(Tail(a)) : Tail(a)[i] = IF i + 1 <= Len(s) THEN s[i + 1] ELSE e
    BY <1>1, <2>2, <2>3
  <2>5. Latest(a, cap) = Tail(a)
    BY <1>2 DEF Latest
  <2> QED BY <2>2, <2>4, <2>5 DEF Pushed
<1>3. CASE ~ (Len(a) > cap)
  <2>1. Latest(a, cap) = a
    BY <1>3 DEF Latest
  <2>2. Len(s) \in Nat
    BY LenProperties
  <2>3. /\ Len(a) = Len(s) + 1 - 0
        /\ \A i \in 1..Len(a) : a[i] = IF i + 0 <= Len(s) THEN s[i + 0] ELSE e
    BY <1>1, <2>2
  <2> QED BY <1>1, <2>1, <2>3 DEF Pushed
<1> QED BY <1>2, <1>3

-----------------------------------------------------------------------------
(* Facts about ledgers.                                                    *)

LEMMA Constants ==
  /\ NPersonas \in Nat /\ Keep \in Nat /\ EliminatedCap \in Nat /\ ExclusionCap \in Nat
  /\ NoLeader \notin Names /\ Unnamed \notin Names
  /\ \A t \in Tokens : NameOf[t] \in Names /\ Launched[t] \in Nat
BY CommitmentsAssumption

LEMMA LedgerParts ==
  ASSUME NEW l \in Ledger
  PROVE  /\ l.next \in Nat /\ l.cycles \in Seq(Cycle) /\ l.eliminated \in Seq(Elimination)
         /\ l.exclusions \in Seq(Exclusion) /\ l.stolen \in SUBSET Names
         /\ DOMAIN l.cycles = 1..Len(l.cycles) /\ Len(l.cycles) \in Nat
         /\ \A i \in DOMAIN l.cycles : l.cycles[i] \in Cycle
<1>1. /\ l.next \in Nat /\ l.cycles \in Seq(Cycle) /\ l.eliminated \in Seq(Elimination)
      /\ l.exclusions \in Seq(Exclusion) /\ l.stolen \in SUBSET Names
  BY DEF Ledger
<1>2. DOMAIN l.cycles = 1..Len(l.cycles) /\ Len(l.cycles) \in Nat
  BY <1>1, LenProperties
<1>3. \A i \in DOMAIN l.cycles : l.cycles[i] \in Cycle
  BY <1>1, <1>2, ElementOfSeq
<1> QED BY <1>1, <1>2, <1>3

LEMMA EliminatedType ==
  ASSUME NEW l \in Ledger, NEW c \in Cycle
  PROVE  Eliminated(l, c) \in Seq(Elimination)
<1>1. CASE Demoted(l, c)
  <2> DEFINE prev == l.cycles[Len(l.cycles)]
  <2>1. l.cycles # <<>> /\ prev.lead # NoLeader
    BY <1>1 DEF Demoted
  <2>2. Len(l.cycles) \in 1..Len(l.cycles)
    BY <2>1, LedgerParts, EmptySeq
  <2>3. prev \in Cycle
    BY <2>2, LedgerParts
  <2>4. Demotion(l, c) \in Elimination
    BY <2>1, <2>3 DEF Demotion, Cycle, Elimination
  <2>5. <<Demotion(l, c)>> \o l.eliminated \in Seq(Elimination)
    BY <2>4, LedgerParts, ConcatProperties
  <2> HIDE DEF prev
  <2> QED BY <1>1, <2>5, NewestType, Constants DEF Eliminated
<1>2. CASE ~ Demoted(l, c)
  BY <1>2, LedgerParts DEF Eliminated
<1> QED BY <1>1, <1>2

(* A published cycle joins those that are kept; thefts stay as they were.  *)
LEMMA PublishedFacts ==
  ASSUME NEW l \in Ledger, NEW c \in Cycle
  PROVE  LET q == Published(l, c) IN
         /\ q \in Ledger /\ q.stolen = l.stolen
         /\ Retained(q) \subseteq Retained(l) \cup {c}
         /\ q.cycles = Latest(Append(l.cycles, c), Keep)
<1> DEFINE q == Published(l, c)
           cs == Latest(Append(l.cycles, c), Keep)
<1>1. PICK d \in {0, 1} : /\ cs \in Seq(Cycle) /\ Len(cs) = Len(l.cycles) + 1 - d
                          /\ \A i \in 1..Len(cs) : cs[i] = IF i + d <= Len(l.cycles) THEN l.cycles[i + d] ELSE c
  <2>1. l.cycles \in Seq(Cycle) /\ Keep \in Nat
    BY LedgerParts, Constants
  <2>2. cs \in Seq(Cycle) /\ Pushed(cs, l.cycles, c)
    <3>1. cs = Latest(Append(l.cycles, c), Keep)
      OBVIOUS
    <3> HIDE DEF cs
    <3> QED BY <2>1, <3>1, LatestFacts
  <2> HIDE DEF cs
  <2> QED BY <2>2 DEF Pushed
<1>2. Eliminated(l, c) \in Seq(Elimination) /\ l.next + 1 \in Nat
  BY EliminatedType, LedgerParts
<1>3. /\ q = [l EXCEPT !.next = l.next + 1, !.eliminated = Eliminated(l, c), !.cycles = cs]
  BY DEF Published
<1>4. q \in Ledger /\ q.stolen = l.stolen /\ q.cycles = cs
  <2> HIDE DEF cs, q
  <2> QED BY <1>1, <1>2, <1>3 DEF Ledger
<1>5. ASSUME NEW x \in Retained(q) PROVE x \in Retained(l) \cup {c}
  <2>1. PICK i \in 1..Len(cs) : x = cs[i]
    <3>1. DOMAIN cs = 1..Len(cs)
      BY <1>1, LenProperties
    <3> HIDE DEF cs, q
    <3> QED BY <1>4, <1>5, <3>1 DEF Retained
  <2>2. i + d <= Len(l.cycles) => i + d \in DOMAIN l.cycles
    BY <1>1, LedgerParts
  <2> HIDE DEF cs, q
  <2> QED BY <1>1, <2>1, <2>2 DEF Retained
<1> QED BY <1>4, <1>5

LEMMA PublishedOrder ==
  ASSUME NEW l \in Ledger, NEW c \in Cycle, c.at = clock, InOrder(l)
  PROVE  InOrder(Published(l, c))
<1> DEFINE cs == Published(l, c).cycles
<1>1. l.cycles \in Seq(Cycle) /\ Keep \in Nat /\ cs = Latest(Append(l.cycles, c), Keep)
  BY LedgerParts, PublishedFacts, Constants
<1>2. cs \in Seq(Cycle) /\ Pushed(cs, l.cycles, c)
  <2> HIDE DEF cs
  <2> QED BY <1>1, LatestFacts
<1> HIDE DEF cs
<1>3. PICK d \in {0, 1} : /\ Len(cs) = Len(l.cycles) + 1 - d
                          /\ \A i \in 1..Len(cs) : cs[i] = IF i + d <= Len(l.cycles) THEN l.cycles[i + d] ELSE c
  BY <1>2 DEF Pushed
<1>4. DOMAIN cs = 1..Len(cs) /\ DOMAIN l.cycles = 1..Len(l.cycles) /\ Len(l.cycles) \in Nat
  BY <1>2, LedgerParts, LenProperties
<1>5. \A i \in DOMAIN l.cycles : l.cycles[i].at \in Nat /\ l.cycles[i].at <= clock
  BY LedgerParts DEF Cycle, InOrder
<1>6. \A i, j \in DOMAIN l.cycles : i <= j => l.cycles[i].at <= l.cycles[j].at
  BY DEF InOrder
<1>7. clock \in Nat
  BY DEF Cycle
<1>8. ASSUME NEW i \in DOMAIN cs, NEW j \in DOMAIN cs
      PROVE  (i <= j => cs[i].at <= cs[j].at) /\ cs[i].at <= clock
  <2>1. /\ i \in 1..Len(cs) /\ j \in 1..Len(cs) /\ i \in Nat /\ j \in Nat
        /\ i + d <= Len(l.cycles) => i + d \in DOMAIN l.cycles
        /\ j + d <= Len(l.cycles) => j + d \in DOMAIN l.cycles
    BY <1>3, <1>4, <1>8
  <2>2. cs[i] = (IF i + d <= Len(l.cycles) THEN l.cycles[i + d] ELSE c)
    BY <1>3, <2>1
  <2>3. cs[j] = (IF j + d <= Len(l.cycles) THEN l.cycles[j + d] ELSE c)
    BY <1>3, <2>1
  <2>4. CASE i + d <= Len(l.cycles) /\ j + d <= Len(l.cycles)
    BY <1>4, <1>5, <1>6, <2>1, <2>2, <2>3, <2>4, SMTT(30)
  <2>5. CASE i + d <= Len(l.cycles) /\ ~ (j + d <= Len(l.cycles))
    BY <1>5, <2>1, <2>2, <2>3, <2>5
  <2>6. CASE ~ (i + d <= Len(l.cycles))
    <3>1. i <= j => ~ (j + d <= Len(l.cycles))
      BY <1>3, <1>4, <2>1, <2>6
    <3> QED BY <1>7, <2>2, <2>3, <2>6, <3>1
  <2> QED BY <2>4, <2>5, <2>6
<1> QED BY <1>8 DEF InOrder, cs

(* findCommitted() finds the earliest commitment there is.                 *)
LEMMA FirstFacts ==
  ASSUME NEW l \in Ledger, NEW n, Holding(l, n) # {}
  PROVE  /\ First(l, n) \in Holding(l, n) /\ n \in Names
         /\ \A j \in Holding(l, n) : First(l, n) <= j
<1>1. Holding(l, n) \in SUBSET (1..Len(l.cycles)) /\ Len(l.cycles) \in Nat
  BY LedgerParts DEF Holding
<1>2. \E i \in Holding(l, n) : \A j \in Holding(l, n) : i <= j
  BY <1>1, LeastExists
<1>3. n \in Names
  BY LedgerParts DEF Holding, Cycle
<1> QED BY <1>2, <1>3 DEF First

(* The check of a new token: it leaves the cycles alone, forgets no theft, *)
(* and records one for every commitment older than the launch.             *)
LEMMA CheckedFacts ==
  ASSUME NEW l \in Ledger, NEW t \in Tokens, NEW n
  PROVE  LET q == Checked(l, t, n) IN
         /\ q \in Ledger /\ q.cycles = l.cycles /\ l.stolen \subseteq q.stolen
         /\ InOrder(l) => \A c \in Retained(l) : n \in c.names /\ Launched[t] > c.at => n \in q.stolen
<1> DEFINE q == Checked(l, t, n)
<1>1. CASE Theft(l, t, n)
  <2> DEFINE ex == Newest(<<TheftRecord(l, t, n)>> \o l.exclusions, ExclusionCap)
  <2>1. Holding(l, n) # {}
    BY <1>1 DEF Theft, FindCommitted
  <2>2. First(l, n) \in DOMAIN l.cycles /\ n \in Names
    BY <2>1, FirstFacts DEF Holding
  <2>3. TheftRecord(l, t, n) \in Exclusion
    <3>1. l.cycles[First(l, n)] \in Cycle
      BY <2>2, LedgerParts
    <3> QED BY <2>2, <3>1 DEF TheftRecord, Exclusion, Cycle
  <2>4. <<TheftRecord(l, t, n)>> \o l.exclusions \in Seq(Exclusion)
    BY <2>3, LedgerParts, ConcatProperties
  <2>5. ex \in Seq(Exclusion)
    BY <2>4, NewestType, Constants
  <2>6. q = [l EXCEPT !.stolen = l.stolen \cup {n}, !.exclusions = ex]
    BY <1>1 DEF Checked
  <2> HIDE DEF ex, q
  <2>7. q \in Ledger /\ q.cycles = l.cycles /\ q.stolen = l.stolen \cup {n}
    BY <2>2, <2>5, <2>6 DEF Ledger
  <2> QED BY <2>7 DEF q
<1>2. CASE ~ Theft(l, t, n)
  <2>1. q = l
    BY <1>2 DEF Checked
  <2>2. ASSUME InOrder(l), NEW c \in Retained(l), n \in c.names, Launched[t] > c.at, n \notin l.stolen
        PROVE  FALSE
    <3>1. PICK j \in DOMAIN l.cycles : c = l.cycles[j]
      BY <2>2 DEF Retained
    <3>2. j \in Holding(l, n)
      BY <2>2, <3>1 DEF Holding
    <3>3. First(l, n) \in Holding(l, n) /\ First(l, n) <= j
      BY <3>2, FirstFacts
    <3>4. l.cycles[First(l, n)].at <= l.cycles[j].at
      BY <2>2, <3>3 DEF InOrder, Holding
    <3>5. l.cycles[First(l, n)].at \in Nat /\ l.cycles[j].at \in Nat /\ Launched[t] \in Nat
      BY <3>3, LedgerParts, Constants DEF Holding, Cycle
    <3>6. Launched[t] > l.cycles[First(l, n)].at
      BY <2>2, <3>1, <3>4, <3>5
    <3> QED BY <1>2, <2>2, <3>2, <3>6 DEF Theft, FindCommitted
  <2> HIDE DEF q
  <2>3. InOrder(l) => \A c \in Retained(l) : n \in c.names /\ Launched[t] > c.at => n \in l.stolen
    BY <2>2
  <2> QED BY <2>1, <2>3 DEF q
<1> QED BY <1>1, <1>2

LEMMA EmptyFacts ==
  /\ EmptyLedger \in Ledger /\ EmptyLedger.stolen = {}
  /\ DOMAIN EmptyLedger.cycles = {}
  /\ Fresh \in Snapshot
<1>1. <<>> \in Seq(Cycle) /\ <<>> \in Seq(Elimination) /\ <<>> \in Seq(Exclusion)
  BY EmptySeq
<1>2. EmptyLedger \in Ledger /\ EmptyLedger.stolen = {} /\ EmptyLedger.cycles = <<>>
  BY <1>1 DEF EmptyLedger, Ledger
<1>3. DOMAIN EmptyLedger.cycles = {}
  BY <1>2
<1>4. Absent \in TokenState
  BY DEF Absent, TokenState
<1>5. Fresh \in Snapshot
  BY <1>2, <1>4 DEF Fresh, Snapshot
<1> QED BY <1>2, <1>3, <1>5

-----------------------------------------------------------------------------
(* Facts about runs.                                                       *)

LEMMA GeneratedFacts ==
  ASSUME TypeOK, NEW cycle \in Cycles, NEW p \in Personas
  PROVE  /\ cycle[p] \in Cycle /\ cycle[p].at = clock
         /\ cycle[p].names \cap DeployedNames = {}
         /\ cycle[p].names \cap ledgers[p].stolen = {}
<1>1. cycle[p] \in Generated(p)
  BY DEF Cycles
<1>2. ledgers[p].next \in Nat /\ runId + 1 \in Nat /\ clock \in Nat
  BY LedgerParts DEF TypeOK
<1> DEFINE allowed == Allowed(ledgers[p], DeployedNames) \cap Vocabulary[p]
<1>3. allowed \subseteq Names /\ allowed \cap DeployedNames = {} /\ allowed \cap ledgers[p].stolen = {}
  BY DEF Allowed
<1>4. cycle[p] \in [id : {ledgers[p].next}, run : {runId + 1}, at : {clock},
                    names : SUBSET allowed, lead : allowed \cup {NoLeader}]
  BY <1>1 DEF Generated
<1> HIDE DEF allowed
<1>5. cycle[p] \in Cycle /\ cycle[p].at = clock /\ cycle[p].names \subseteq allowed
  BY <1>2, <1>3, <1>4 DEF Cycle
<1> QED BY <1>3, <1>5

LEMMA AppendedFacts ==
  ASSUME TypeOK, NEW cycle \in Cycles, NEW k \in 0..NPersonas
  PROVE  /\ Appended(cycle, k) \subseteq Row
         /\ \A row \in Appended(cycle, k) : row.name \notin ledgers[row.persona].stolen
<1>1. ASSUME NEW row \in Appended(cycle, k)
      PROVE  row \in Row /\ row.name \notin ledgers[row.persona].stolen
  <2>1. PICK p \in 1..k : row \in Rows(p, cycle[p])
    BY <1>1 DEF Appended
  <2>2. p \in Personas
    BY Constants DEF Personas
  <2>3. cycle[p] \in Cycle /\ cycle[p].names \cap ledgers[p].stolen = {}
    BY <2>2, GeneratedFacts
  <2> QED BY <2>1, <2>2, <2>3 DEF Rows, Row, Cycle
<1> QED BY <1>1

LEMMA RunLedgers ==
  ASSUME TypeOK, NEW cycle \in Cycles, NEW m, NEW k, RunTo(cycle, m, k)
  PROVE  /\ ledgers' \in [Personas -> Ledger]
         /\ \A p \in Personas : /\ ledgers'[p].stolen = ledgers[p].stolen
                                /\ Retained(ledgers'[p]) \subseteq Retained(ledgers[p]) \cup {cycle[p]}
                                /\ InOrder(ledgers[p]) => InOrder(ledgers'[p])
<1>1. ASSUME NEW p \in Personas
      PROVE  /\ ledgers'[p] \in Ledger /\ ledgers'[p].stolen = ledgers[p].stolen
             /\ Retained(ledgers'[p]) \subseteq Retained(ledgers[p]) \cup {cycle[p]}
             /\ InOrder(ledgers[p]) => InOrder(ledgers'[p])
  <2>1. ledgers[p] \in Ledger /\ cycle[p] \in Cycle /\ cycle[p].at = clock
    BY GeneratedFacts DEF TypeOK
  <2>2. CASE p <= m
    <3>1. ledgers'[p] = Published(ledgers[p], cycle[p])
      BY <2>2 DEF RunTo
    <3> QED BY <2>1, <3>1, PublishedFacts, PublishedOrder
  <2>3. CASE ~ (p <= m)
    <3>1. ledgers'[p] = ledgers[p]
      BY <2>3 DEF RunTo
    <3> QED BY <2>1, <3>1
  <2> QED BY <2>2, <2>3
<1>2. ledgers' = [p \in Personas |-> ledgers'[p]]
  BY DEF RunTo
<1> QED BY <1>1, <1>2

LEMMA RunType ==
  ASSUME TypeOK, NEW cycle \in Cycles, NEW m, NEW k \in 0..NPersonas, RunTo(cycle, m, k)
  PROVE  runId' \in Nat /\ ledgers' \in [Personas -> Ledger] /\ log' \subseteq Row
<1>1. runId' \in Nat
  BY DEF TypeOK, RunTo
<1>2. log' \subseteq Row
  BY AppendedFacts DEF TypeOK, RunTo
<1> QED BY <1>1, <1>2, RunLedgers

(* What a step does to tokens and ledgers when a token enters or changes.  *)
LEMMA UpsertType ==
  ASSUME TypeOK, NEW t \in Tokens, NEW s \in {"pending", "labelled"}, NEW n \in Names \cup {Unnamed}, Upsert(t, s, n)
  PROVE  /\ ledgers' \in [Personas -> Ledger] /\ tokens' \in [Tokens -> TokenState]
         /\ renamed' \subseteq Tokens
         /\ \A p \in Personas : /\ ledgers'[p].cycles = ledgers[p].cycles
                                /\ ledgers[p].stolen \subseteq ledgers'[p].stolen
<1>1. ASSUME NEW p \in Personas
      PROVE  /\ ledgers'[p] \in Ledger /\ ledgers'[p].cycles = ledgers[p].cycles
             /\ ledgers[p].stolen \subseteq ledgers'[p].stolen
  <2>1. ledgers[p] \in Ledger
    BY DEF TypeOK
  <2>2. ledgers'[p] = ledgers[p] \/ ledgers'[p] = Checked(ledgers[p], t, n)
    BY DEF Upsert
  <2> QED BY <2>1, <2>2, CheckedFacts
<1>2. ledgers' = [p \in Personas |-> ledgers'[p]]
  BY DEF Upsert, TypeOK
<1>3. tokens' \in [Tokens -> TokenState]
  BY DEF Upsert, TypeOK, TokenState
<1>4. renamed' \subseteq Tokens
  BY DEF Upsert, TypeOK
<1> QED BY <1>1, <1>2, <1>3, <1>4

(* The three ways a token enters or changes.                               *)
LEMMA UpsertSteps ==
  ASSUME TypeOK, NEW t \in Tokens, Watch(t) \/ Label(t)
  PROVE  /\ \E s \in {"pending", "labelled"}, n \in Names \cup {Unnamed} : Upsert(t, s, n)
         /\ unread' \in Nat
<1>1. NameOf[t] \in Names /\ tokens[t].name \in Names \cup {Unnamed}
  BY Constants DEF TypeOK, TokenState
<1>2. CASE Watch(t)
  BY <1>1, <1>2 DEF Watch, ReadName, TypeOK
<1>3. CASE Label(t)
  BY <1>1, <1>3 DEF Label, ReadName, TypeOK
<1> QED BY <1>2, <1>3

LEMMA ReloadType ==
  ASSUME TypeOK, Reload, log' \subseteq Row
  PROVE  TypeOK'
<1>1. runId' \in Nat /\ tokens' \in [Tokens -> TokenState] /\ ledgers' \in [Personas -> Ledger]
  BY DEF Reload, TypeOK, Snapshot
<1> QED BY <1>1 DEF Reload, TypeOK

-----------------------------------------------------------------------------
(* Types.                                                                  *)

LEMMA TypeInit == Init => TypeOK
<1> SUFFICES ASSUME Init PROVE TypeOK
  OBVIOUS
<1>1. /\ Fresh.runId \in Nat /\ Fresh.ledgers \in [Personas -> Ledger]
      /\ Fresh.tokens \in [Tokens -> TokenState] /\ Fresh \in Snapshot
  BY EmptyFacts DEF Snapshot
<1> QED BY <1>1 DEF Init, TypeOK

LEMMA TypeStep ==
  ASSUME TypeOK, [Next]_vars
  PROVE  TypeOK'
<1>1. CASE Tick
  BY <1>1 DEF TypeOK, Tick, agent, budgets
<1>2. CASE RunCycle
  <2>1. PICK cycle \in Cycles : RunTo(cycle, NPersonas, NPersonas)
    BY <1>2 DEF RunCycle
  <2>2. NPersonas \in 0..NPersonas
    BY Constants
  <2>3. runId' \in Nat /\ ledgers' \in [Personas -> Ledger] /\ log' \subseteq Row
    BY <2>1, <2>2, RunType
  <2> QED BY <1>2, <2>3 DEF RunCycle, TypeOK, budgets
<1>3. ASSUME NEW k \in Personas, AppendFails(k) PROVE TypeOK'
  <2>1. PICK cycle \in Cycles : RunTo(cycle, k, k - 1)
    BY <1>3 DEF AppendFails
  <2>2. k - 1 \in 0..NPersonas
    BY Constants DEF Personas
  <2>3. runId' \in Nat /\ ledgers' \in [Personas -> Ledger] /\ log' \subseteq Row
    BY <2>1, <2>2, RunType
  <2> QED BY <1>3, <2>3 DEF AppendFails, TypeOK
<1>4. ASSUME NEW t \in Tokens, Watch(t) \/ Label(t) PROVE TypeOK'
  <2>1. PICK s \in {"pending", "labelled"} : \E n \in Names \cup {Unnamed} : Upsert(t, s, n)
    BY <1>4, UpsertSteps
  <2>2. PICK n \in Names \cup {Unnamed} : Upsert(t, s, n)
    BY <2>1
  <2>3. /\ ledgers' \in [Personas -> Ledger] /\ tokens' \in [Tokens -> TokenState]
        /\ renamed' \subseteq Tokens
    BY <2>2, UpsertType
  <2>4. unread' \in Nat
    BY <1>4, UpsertSteps
  <2> QED BY <2>2, <2>3, <2>4 DEF Upsert, TypeOK
<1>5. ASSUME NEW t \in Tokens, Remove(t) PROVE TypeOK'
  <2>1. tokens' \in [Tokens -> TokenState]
    BY <1>5 DEF Remove, TypeOK, TokenState, Absent
  <2> QED BY <1>5, <2>1 DEF Remove, TypeOK, budgets
<1>6. ASSUME NEW p \in Personas, Serve(p) PROVE TypeOK'
  <2>1. ASSUME NEW row \in Shown(p, ledgers[p]) PROVE row \in Row
    <3>1. PICK c \in Retained(ledgers[p]) : row \in Rows(p, c)
      BY <2>1 DEF Shown
    <3>2. c \in Cycle
      BY <3>1, LedgerParts DEF Retained, TypeOK
    <3> QED BY <3>1, <3>2 DEF Rows, Row, Cycle
  <2> QED BY <1>6, <2>1 DEF Serve, TypeOK, agent
<1>7. CASE SaveState
  <2>1. stored' \in Snapshot
    BY <1>7 DEF SaveState, TypeOK, Snapshot
  <2> QED BY <1>7, <2>1 DEF SaveState, TypeOK, agent
<1>8. CASE Restart
  BY <1>8, ReloadType DEF Restart, TypeOK
<1>9. ASSUME NEW k \in Personas, KilledInRun(k) PROVE TypeOK'
  <2>1. PICK cycle \in Cycles : log' = log \cup Appended(cycle, k)
    BY <1>9 DEF KilledInRun
  <2>2. k \in 0..NPersonas
    BY Constants DEF Personas
  <2>3. log' \subseteq Row
    BY <2>1, <2>2, AppendedFacts DEF TypeOK
  <2> QED BY <1>9, <2>3, ReloadType DEF KilledInRun
<1>10. CASE UNCHANGED vars
  BY <1>10 DEF TypeOK, vars, agent, budgets
<1> QED BY <1>1, <1>2, <1>3, <1>4, <1>5, <1>6, <1>7, <1>8, <1>9, <1>10 DEF Next

(* Every variable keeps its type, through failing appends and crashes in   *)
(* the middle of a run (agent.ts, ledger.ts, persist.ts).                  *)
THEOREM TypeCorrect == Spec => []TypeOK
<1>1. TypeOK /\ [Next]_vars => TypeOK'
  BY TypeStep
<1> QED BY <1>1, TypeInit, PTL DEF Spec

-----------------------------------------------------------------------------
(* The log is ahead of the ledgers.                                        *)

LEMMA ShownFacts ==
  ASSUME NEW p \in Personas, NEW l, NEW q, NEW c,
         Retained(q) \subseteq Retained(l) \cup {c}
  PROVE  Shown(p, q) \subseteq Shown(p, l) \cup Rows(p, c)
BY DEF Shown

LEMMA SameCyclesShown ==
  ASSUME NEW p \in Personas, NEW l, NEW q, q.cycles = l.cycles
  PROVE  Retained(q) = Retained(l) /\ Shown(p, q) = Shown(p, l)
BY DEF Shown, Retained

(* Steps that leave the log alone and show or keep nothing new.            *)
LEMMA LogInvKept ==
  ASSUME LogInv, log \subseteq log', served' = served,
         \A p \in Personas : /\ Shown(p, ledgers'[p]) \subseteq log'
                             /\ Shown(p, stored'.ledgers[p]) \subseteq log'
  PROVE  LogInv'
BY DEF LogInv, LedgerWithinLog, ServedWasLogged, Shown, Retained, Rows

LEMMA LogInvInit == Init => LogInv
<1> SUFFICES ASSUME Init PROVE LogInv
  OBVIOUS
<1>1. \A p \in Personas : ledgers[p] = EmptyLedger /\ stored.ledgers[p] = EmptyLedger
  BY DEF Init, Fresh
<1>2. \A p \in Personas : Shown(p, EmptyLedger) = {}
  BY EmptyFacts DEF Shown, Retained
<1> QED BY <1>1, <1>2 DEF Init, LogInv, LedgerWithinLog, ServedWasLogged

LEMMA ReloadLog ==
  ASSUME LogInv, Reload, log \subseteq log'
  PROVE  LogInv'
<1>1. ASSUME NEW p \in Personas
      PROVE  Shown(p, ledgers'[p]) \subseteq log' /\ Shown(p, stored'.ledgers[p]) \subseteq log'
  <2>1. Shown(p, stored.ledgers[p]) \subseteq log /\ ledgers'[p] = stored.ledgers[p] /\ stored' = stored
    BY DEF LogInv, LedgerWithinLog, Reload
  <2> QED BY <2>1
<1> QED BY <1>1, LogInvKept DEF Reload

LEMMA LogInvStep ==
  ASSUME TypeOK, LogInv, MaxAppendFails = 0, [Next]_vars
  PROVE  LogInv'
<1>0. \A p \in Personas : Shown(p, ledgers[p]) \subseteq log /\ Shown(p, stored.ledgers[p]) \subseteq log
  BY DEF LogInv, LedgerWithinLog
<1>1. CASE RunCycle
  <2>1. PICK cycle \in Cycles : RunTo(cycle, NPersonas, NPersonas)
    BY <1>1 DEF RunCycle
  <2>2. ASSUME NEW p \in Personas PROVE Shown(p, ledgers'[p]) \subseteq log'
    <3>1. Retained(ledgers'[p]) \subseteq Retained(ledgers[p]) \cup {cycle[p]}
      BY <2>1, RunLedgers
    <3>2. Shown(p, ledgers'[p]) \subseteq Shown(p, ledgers[p]) \cup Rows(p, cycle[p])
      BY <3>1, ShownFacts
    <3>3. Rows(p, cycle[p]) \subseteq Appended(cycle, NPersonas)
      BY DEF Appended, Personas
    <3> QED BY <1>0, <2>1, <3>2, <3>3 DEF RunTo
  <2>3. stored' = stored /\ served' = served /\ log \subseteq log'
    BY <1>1, <2>1 DEF RunCycle, RunTo
  <2> QED BY <1>0, <2>2, <2>3, LogInvKept
<1>2. ASSUME NEW k \in Personas, AppendFails(k) PROVE FALSE
  BY <1>2 DEF AppendFails, TypeOK
<1>3. ASSUME NEW t \in Tokens, Watch(t) \/ Label(t) PROVE LogInv'
  <2>1. PICK s \in {"pending", "labelled"} : \E n \in Names \cup {Unnamed} : Upsert(t, s, n)
    BY <1>3, UpsertSteps
  <2>2. PICK n \in Names \cup {Unnamed} : Upsert(t, s, n)
    BY <2>1
  <2>3. \A p \in Personas : Shown(p, ledgers'[p]) = Shown(p, ledgers[p])
    BY <2>2, UpsertType, SameCyclesShown
  <2>4. stored' = stored /\ served' = served /\ log' = log
    BY <2>2 DEF Upsert
  <2> QED BY <1>0, <2>3, <2>4, LogInvKept
<1>4. ASSUME NEW t \in Tokens, Remove(t) PROVE LogInv'
  BY <1>0, <1>4, LogInvKept DEF Remove
<1>5. ASSUME NEW p \in Personas, Serve(p) PROVE LogInv'
  BY <1>0, <1>5 DEF Serve, agent, LogInv, LedgerWithinLog, ServedWasLogged, Shown, Retained, Rows
<1>6. CASE SaveState
  BY <1>0, <1>6, LogInvKept DEF SaveState, agent
<1>7. CASE Restart
  BY <1>7, ReloadLog DEF Restart
<1>8. ASSUME NEW k \in Personas, KilledInRun(k) PROVE LogInv'
  BY <1>8, ReloadLog DEF KilledInRun
<1>9. CASE Tick \/ UNCHANGED vars
  BY <1>0, <1>9, LogInvKept DEF Tick, vars, agent
<1> QED BY <1>1, <1>2, <1>3, <1>4, <1>5, <1>6, <1>7, <1>8, <1>9 DEF Next

(* As long as no append fails, every cycle that is kept, in memory or in   *)
(* state.json, is in the commitment log, whatever crashes and when         *)
(* (persist.ts, appendCycle).                                              *)
THEOREM LoggedFirst ==
  ASSUME MaxAppendFails = 0
  PROVE  Spec => []LedgerWithinLog
<1>1. TypeOK /\ LogInv /\ [Next]_vars => LogInv'
  BY LogInvStep
<1>2. LogInv => LedgerWithinLog
  BY DEF LogInv
<1> QED BY <1>1, <1>2, LogInvInit, TypeCorrect, PTL DEF Spec

(* As long as no append fails, nothing was served that is not in the log.  *)
THEOREM NothingServedUnlogged ==
  ASSUME MaxAppendFails = 0
  PROVE  Spec => []ServedWasLogged
<1>1. TypeOK /\ LogInv /\ [Next]_vars => LogInv'
  BY LogInvStep
<1>2. LogInv => ServedWasLogged
  BY DEF LogInv
<1> QED BY <1>1, <1>2, LogInvInit, TypeCorrect, PTL DEF Spec

-----------------------------------------------------------------------------
(* Commitments implements CommitReveal.                                    *)

LEMMA StolenInit == Init => StolenKept
BY EmptyFacts DEF Init, Fresh, StolenKept

LEMMA StolenStep ==
  ASSUME TypeOK, StolenKept, [Next]_vars
  PROVE  StolenKept'
<1>1. ASSUME NEW cycle \in Cycles, NEW m, NEW k, RunTo(cycle, m, k), stored' = stored PROVE StolenKept'
  BY <1>1, RunLedgers DEF StolenKept
<1>2. CASE RunCycle
  BY <1>1, <1>2 DEF RunCycle
<1>3. ASSUME NEW k \in Personas, AppendFails(k) PROVE StolenKept'
  BY <1>1, <1>3 DEF AppendFails
<1>4. ASSUME NEW t \in Tokens, Watch(t) \/ Label(t) PROVE StolenKept'
  <2>1. PICK s \in {"pending", "labelled"} : \E n \in Names \cup {Unnamed} : Upsert(t, s, n)
    BY <1>4, UpsertSteps
  <2>2. PICK n \in Names \cup {Unnamed} : Upsert(t, s, n)
    BY <2>1
  <2>3. \A p \in Personas : ledgers[p].stolen \subseteq ledgers'[p].stolen
    BY <2>2, UpsertType
  <2>4. stored' = stored
    BY <2>2 DEF Upsert
  <2> QED BY <2>3, <2>4 DEF StolenKept
<1>5. ASSUME NEW t \in Tokens, Remove(t) PROVE StolenKept'
  BY <1>5 DEF Remove, StolenKept
<1>6. ASSUME NEW p \in Personas, Serve(p) PROVE StolenKept'
  BY <1>6 DEF Serve, StolenKept, agent
<1>7. CASE SaveState
  BY <1>7 DEF SaveState, StolenKept, agent
<1>8. CASE Reload
  BY <1>8 DEF Reload, StolenKept
<1>9. CASE Tick \/ UNCHANGED vars
  BY <1>9 DEF Tick, StolenKept, vars, agent
<1> QED BY <1>2, <1>3, <1>4, <1>5, <1>6, <1>7, <1>8, <1>9 DEF Next, Restart, KilledInRun

Retired == UNION {{p} \X stored.ledgers[p].stolen : p \in Personas}

LEMMA PromiseInit == Init => Promise!Init
<1> SUFFICES ASSUME Init PROVE Promise!Init
  OBVIOUS
<1>1. \A p \in Personas : stored.ledgers[p].stolen = {}
  BY EmptyFacts DEF Init, Fresh
<1>2. Retired = {}
  BY <1>1 DEF Retired
<1> QED BY <1>2 DEF Init, Promise!Init, Retired

(* A step that only adds rows the ledgers allow is a Commit.               *)
LEMMA PromiseCommit ==
  ASSUME TypeOK, StolenKept, NEW cycle \in Cycles, NEW k \in 0..NPersonas,
         log' = log \cup Appended(cycle, k), stored' = stored, served' = served
  PROVE  Promise!Commit
<1>1. ASSUME NEW row \in log' \ log PROVE <<row.persona, row.name>> \notin Retired
  <2>1. row \in Appended(cycle, k)
    BY <1>1
  <2>2. row.name \notin ledgers[row.persona].stolen /\ row.persona \in Personas
    BY <2>1, AppendedFacts DEF Row
  <2>3. row.name \notin stored.ledgers[row.persona].stolen
    BY <2>2 DEF StolenKept
  <2> QED BY <2>3 DEF Retired
<1> QED BY <1>1 DEF Promise!Commit, Retired

LEMMA PromiseStep ==
  ASSUME TypeOK, LogInv, StolenKept, MaxAppendFails = 0, [Next]_vars
  PROVE  [Promise!Next]_(Promise!vars)
<1>1. CASE RunCycle
  <2>1. PICK cycle \in Cycles : RunTo(cycle, NPersonas, NPersonas)
    BY <1>1 DEF RunCycle
  <2>2. NPersonas \in 0..NPersonas
    BY Constants
  <2>3. Promise!Commit
    BY <1>1, <2>1, <2>2, PromiseCommit DEF RunCycle, RunTo
  <2> QED BY <2>3 DEF Promise!Next
<1>2. ASSUME NEW k \in Personas, AppendFails(k) PROVE FALSE
  BY <1>2 DEF AppendFails, TypeOK
<1>3. ASSUME log' = log, served' = served, stored' = stored PROVE UNCHANGED Promise!vars
  BY <1>3 DEF Promise!vars
<1>4. ASSUME NEW t \in Tokens, Watch(t) \/ Label(t) PROVE UNCHANGED Promise!vars
  BY <1>3, <1>4, UpsertSteps DEF Upsert
<1>5. ASSUME NEW t \in Tokens, Remove(t) PROVE UNCHANGED Promise!vars
  BY <1>3, <1>5 DEF Remove
<1>6. ASSUME NEW p \in Personas, Serve(p) PROVE Promise!Reveal
  <2>1. served \subseteq served' /\ served' \subseteq log
    BY <1>6 DEF Serve, LogInv, LedgerWithinLog, ServedWasLogged
  <2> QED BY <1>6, <2>1 DEF Promise!Reveal, Serve, agent
<1>7. CASE SaveState
  <2>1. \A p \in Personas : stored'.ledgers[p] = ledgers[p]
    BY <1>7 DEF SaveState
  <2>2. Retired \subseteq Retired'
    BY <2>1 DEF Retired, StolenKept
  <2>3. Promise!Retire
    BY <1>7, <2>2 DEF Promise!Retire, SaveState, Retired
  <2> QED BY <2>3 DEF Promise!Next
<1>8. CASE Restart
  BY <1>3, <1>8 DEF Restart, Reload
<1>9. ASSUME NEW k \in Personas, KilledInRun(k) PROVE Promise!Commit
  <2>1. PICK cycle \in Cycles : log' = log \cup Appended(cycle, k)
    BY <1>9 DEF KilledInRun
  <2>2. k \in 0..NPersonas
    BY Constants DEF Personas
  <2> QED BY <1>9, <2>1, <2>2, PromiseCommit DEF KilledInRun, Reload
<1>10. CASE Tick \/ UNCHANGED vars
  BY <1>3, <1>10 DEF Tick, vars
<1> QED BY <1>1, <1>2, <1>4, <1>5, <1>6, <1>7, <1>8, <1>9, <1>10 DEF Next, Promise!Next

(* As long as no append fails, ideas are committed before they are shown,  *)
(* no commitment is withdrawn, and what state.json knows as stolen is not  *)
(* committed again, whatever crashes and when (README, "Ideas Wassily      *)
(* writes").                                                               *)
THEOREM Implements ==
  ASSUME MaxAppendFails = 0
  PROVE  Spec => KeepsPromise
<1>1. TypeOK /\ LogInv /\ [Next]_vars => LogInv'
  BY LogInvStep
<1>2. TypeOK /\ StolenKept /\ [Next]_vars => StolenKept'
  BY StolenStep
<1>3. TypeOK /\ LogInv /\ StolenKept /\ [Next]_vars => [Promise!Next]_(Promise!vars)
  BY PromiseStep
<1> QED BY <1>1, <1>2, <1>3, TypeCorrect, LogInvInit, StolenInit, PromiseInit, PTL
        DEF Spec, KeepsPromise, Promise!Spec

-----------------------------------------------------------------------------
(* No theft of a kept commitment goes unrecorded.                          *)

LEMMA TheftInit == Init => TheftInv
<1> SUFFICES ASSUME Init PROVE TheftInv
  OBVIOUS
<1>1. \A p \in Personas : ledgers[p] = EmptyLedger /\ stored.ledgers[p] = EmptyLedger
  BY DEF Init, Fresh
<1>2. InOrder(EmptyLedger) /\ Retained(EmptyLedger) = {}
  BY EmptyFacts DEF InOrder, Retained
<1> QED BY <1>1, <1>2 DEF TheftInv, LedgersInOrder, Noted

(* Noted survives a step that keeps or drops tokens, and adds only cycles  *)
(* without their names.                                                    *)
LEMMA NotedKept ==
  ASSUME NEW ls, NEW ts, NEW ms, NEW us, Noted(ls, ts), renamed \subseteq renamed',
         \A t \in Tokens : us[t] = ts[t] \/ us[t].status = "absent",
         \A p \in Personas : ls[p].stolen \subseteq ms[p].stolen,
         \A p \in Personas, t \in Tokens : us[t].status # "absent" =>
           \A c \in Retained(ms[p]) : c \in Retained(ls[p]) \/ us[t].name \notin c.names
  PROVE  \A p \in Personas, t \in Tokens \ renamed' : us[t].status # "absent" =>
           \A c \in Retained(ms[p]) :
             us[t].name \in c.names /\ Launched[t] > c.at => us[t].name \in ms[p].stolen
BY DEF Noted

LEMMA RunKeepsTheftInv ==
  ASSUME TypeOK, TheftInv, NEW cycle \in Cycles, NEW m, NEW k, RunTo(cycle, m, k),
         UNCHANGED <<clock, tokens, stored, renamed>>
  PROVE  TheftInv'
<1>1. \A p \in Personas : InOrder(ledgers'[p])
  BY RunLedgers DEF TheftInv, LedgersInOrder
<1>2. LedgersInOrder'
  BY <1>1 DEF LedgersInOrder, TheftInv, InOrder
<1>3. ASSUME NEW p \in Personas, NEW t \in Tokens, tokens'[t].status # "absent", NEW c \in Retained(ledgers'[p])
      PROVE  c \in Retained(ledgers[p]) \/ tokens'[t].name \notin c.names
  <2>1. c \in Retained(ledgers[p]) \/ c = cycle[p]
    BY RunLedgers
  <2>2. tokens'[t].name \in DeployedNames
    BY <1>3 DEF DeployedNames, Known
  <2>3. cycle[p].names \cap DeployedNames = {}
    BY GeneratedFacts
  <2> QED BY <2>1, <2>2, <2>3
<1>4. \A p \in Personas : ledgers[p].stolen \subseteq ledgers'[p].stolen
  BY RunLedgers
<1>5. Noted(ledgers, tokens)
  BY DEF TheftInv
<1>6. Noted(ledgers, tokens)'
  BY <1>3, <1>4, <1>5, NotedKept DEF Noted
<1>7. Noted(stored.ledgers, stored.tokens)'
  BY DEF TheftInv, Noted, Retained
<1> QED BY <1>2, <1>6, <1>7 DEF TheftInv

LEMMA UpsertKeepsTheftInv ==
  ASSUME TypeOK, TheftInv, NEW t \in Tokens, NEW s \in {"pending", "labelled"},
         NEW n \in Names \cup {Unnamed}, Upsert(t, s, n)
  PROVE  TheftInv'
<1>1. /\ \A p \in Personas : ledgers'[p].cycles = ledgers[p].cycles /\ ledgers[p].stolen \subseteq ledgers'[p].stolen
      /\ clock' = clock /\ stored' = stored /\ renamed \subseteq renamed'
  BY UpsertType DEF Upsert
<1>2. \A p \in Personas : Retained(ledgers'[p]) = Retained(ledgers[p])
  BY <1>1, SameCyclesShown
<1>3. LedgersInOrder'
  BY <1>1 DEF TheftInv, LedgersInOrder, InOrder
<1>4. ASSUME NEW p \in Personas, NEW u \in Tokens \ renamed', tokens'[u].status # "absent",
             NEW c \in Retained(ledgers'[p]), tokens'[u].name \in c.names, Launched[u] > c.at
      PROVE  tokens'[u].name \in ledgers'[p].stolen
  <2>0. c \in Retained(ledgers[p]) /\ u \notin renamed
    BY <1>1, <1>2, <1>4
  <2>1. CASE tokens'[u] = tokens[u]
    <3>1. tokens[u].name \in ledgers[p].stolen
      BY <1>4, <2>0, <2>1 DEF TheftInv, Noted
    <3> QED BY <1>1, <2>1, <3>1
  <2>2. CASE tokens'[u] # tokens[u]
    <3>1. u = t /\ tokens'[t] = [status |-> s, name |-> n]
      BY <2>2 DEF Upsert, TypeOK
    <3>2. CASE Known(t)
      <4>1. tokens[t].name = n
        BY <1>4, <3>1, <3>2 DEF Upsert
      <4>2. n \in ledgers[p].stolen
        BY <1>4, <2>0, <3>1, <3>2, <4>1 DEF TheftInv, Noted, Known
      <4> QED BY <1>1, <3>1, <4>2
    <3>3. CASE ~ Known(t)
      <4>1. ledgers'[p] = Checked(ledgers[p], t, n) /\ ledgers[p] \in Ledger /\ InOrder(ledgers[p])
        BY <3>3 DEF Upsert, TypeOK, TheftInv, LedgersInOrder
      <4> QED BY <1>4, <2>0, <3>1, <4>1, CheckedFacts
    <3> QED BY <3>2, <3>3
  <2> QED BY <2>1, <2>2
<1>5. Noted(ledgers, tokens)'
  BY <1>4 DEF Noted
<1>6. Noted(stored.ledgers, stored.tokens)'
  BY <1>1 DEF TheftInv, Noted, Retained
<1> QED BY <1>3, <1>5, <1>6 DEF TheftInv

LEMMA TheftStep ==
  ASSUME TypeOK, TheftInv, [Next]_vars
  PROVE  TheftInv'
<1>1. CASE Tick
  <2>1. \A p \in Personas : InOrder(ledgers[p])' /\ InOrder(stored.ledgers[p])'
    <3>1. ASSUME NEW l \in Ledger, InOrder(l), clock' = clock + 1
          PROVE  \A i, j \in DOMAIN l.cycles : /\ i <= j => l.cycles[i].at <= l.cycles[j].at
                                               /\ l.cycles[i].at <= clock'
      <4>1. \A i \in DOMAIN l.cycles : l.cycles[i].at \in Nat
        BY <3>1, LedgerParts DEF Cycle
      <4> QED BY <3>1, <4>1 DEF InOrder, TypeOK
    <3>2. \A p \in Personas : ledgers[p] \in Ledger /\ stored.ledgers[p] \in Ledger
      BY DEF TypeOK, Snapshot
    <3>3. ledgers' = ledgers /\ stored' = stored /\ clock' = clock + 1
      BY <1>1 DEF Tick, agent
    <3> QED BY <3>1, <3>2, <3>3 DEF TheftInv, LedgersInOrder, InOrder
  <2>2. Noted(ledgers, tokens)' /\ Noted(stored.ledgers, stored.tokens)'
    BY <1>1 DEF Tick, agent, TheftInv, Noted, Retained
  <2> QED BY <2>1, <2>2 DEF TheftInv, LedgersInOrder
<1>2. CASE RunCycle
  BY <1>2, RunKeepsTheftInv DEF RunCycle
<1>3. ASSUME NEW k \in Personas, AppendFails(k) PROVE TheftInv'
  BY <1>3, RunKeepsTheftInv DEF AppendFails
<1>4. ASSUME NEW t \in Tokens, Watch(t) \/ Label(t) PROVE TheftInv'
  <2>1. PICK s \in {"pending", "labelled"} : \E n \in Names \cup {Unnamed} : Upsert(t, s, n)
    BY <1>4, UpsertSteps
  <2> QED BY <2>1, UpsertKeepsTheftInv
<1>5. ASSUME NEW t \in Tokens, Remove(t) PROVE TheftInv'
  <2>1. \A u \in Tokens : tokens'[u] = tokens[u] \/ tokens'[u].status = "absent"
    BY <1>5 DEF Remove, TypeOK, Absent
  <2>2. ledgers' = ledgers /\ stored' = stored /\ clock' = clock /\ renamed' = renamed
    BY <1>5 DEF Remove
  <2>3. Noted(ledgers, tokens)
    BY DEF TheftInv
  <2>4. Noted(ledgers, tokens)'
    BY <2>1, <2>2, <2>3, NotedKept DEF Noted
  <2>5. LedgersInOrder' /\ Noted(stored.ledgers, stored.tokens)'
    BY <2>2 DEF TheftInv, LedgersInOrder, InOrder, Noted, Retained
  <2> QED BY <2>4, <2>5 DEF TheftInv
<1>6. CASE SaveState
  <2>1. stored'.ledgers = ledgers /\ stored'.tokens = tokens /\ UNCHANGED <<clock, ledgers, tokens, renamed>>
    BY <1>6 DEF SaveState, agent
  <2> QED BY <2>1 DEF TheftInv, LedgersInOrder, InOrder, Noted, Retained
<1>7. CASE Reload
  <2>1. ledgers' = stored.ledgers /\ tokens' = stored.tokens /\ UNCHANGED <<clock, stored, renamed>>
    BY <1>7 DEF Reload
  <2> QED BY <2>1 DEF TheftInv, LedgersInOrder, InOrder, Noted, Retained
<1>8. ASSUME NEW p \in Personas, Serve(p) PROVE UNCHANGED <<clock, ledgers, tokens, stored, renamed>>
  BY <1>8 DEF Serve, agent
<1>9. ASSUME UNCHANGED <<clock, ledgers, tokens, stored, renamed>> PROVE TheftInv'
  BY <1>9 DEF TheftInv, LedgersInOrder, InOrder, Noted, Retained
<1>10. UNCHANGED vars => UNCHANGED <<clock, ledgers, tokens, stored, renamed>>
  BY DEF vars, agent
<1> QED BY <1>1, <1>2, <1>3, <1>4, <1>5, <1>6, <1>7, <1>8, <1>9, <1>10 DEF Next, Restart, KilledInRun

(* A token that is known and was not renamed, launched after its name was  *)
(* committed in a cycle still kept, is in the theft record of every        *)
(* persona that wrote the name; restarts and failing appends change        *)
(* nothing about it (agent.ts, upsert; ledger.ts, findCommitted).          *)
THEOREM TheftsNoted == Spec => []RetainedTheftsNoted
<1>1. TypeOK /\ TheftInv /\ [Next]_vars => TheftInv'
  BY TheftStep
<1>2. TheftInv => RetainedTheftsNoted
  BY DEF TheftInv, Noted, RetainedTheftsNoted, Known
<1> QED BY <1>1, <1>2, TheftInit, TypeCorrect, PTL DEF Spec

-----------------------------------------------------------------------------
(* What the two public lists of a ledger say.                              *)

(* OneRecordPerTheft for one ledger.                                       *)
TheftsListed(l) ==
  /\ \A i, j \in DOMAIN l.exclusions : l.exclusions[i].name = l.exclusions[j].name => i = j
  /\ \A i \in DOMAIN l.exclusions : /\ l.exclusions[i].name \in l.stolen
                                    /\ l.exclusions[i].firstSeenAt < Launched[l.exclusions[i].token]
  /\ Len(l.exclusions) < ExclusionCap =>
       \A n \in l.stolen : \E i \in DOMAIN l.exclusions : l.exclusions[i].name = n

(* Leader i of the kept cycles lost its rank to leader i + 1.              *)
Revised(cs, i) == cs[i].lead # NoLeader /\ cs[i].lead # cs[i + 1].lead
Revision(cs, i) == [name |-> cs[i].lead, ledCycle |-> cs[i].id, demotedCycle |-> cs[i + 1].id]

(* LeadersRecorded for one ledger.  The records come newest first, at most *)
(* one a cycle: that of a kept pair is no deeper in the list than the pair *)
(* is old, so that a list of Keep - 1 records cannot have dropped it.      *)
LeadersListed(l) ==
  /\ Len(l.cycles) <= Keep
  /\ \A i \in 1..(Len(l.cycles) - 1) : Revised(l.cycles, i) =>
       \E j \in 1..Len(l.eliminated) :
         j <= Len(l.cycles) - i /\ l.eliminated[j] = Revision(l.cycles, i)

Listed(l) == TheftsListed(l) /\ LeadersListed(l)
ListInv == \A p \in Personas : Listed(ledgers[p]) /\ Listed(stored.ledgers[p])

(* q is e and s, cut to its first cap members.                             *)
Fronted(q, s, e, cap) ==
  /\ DOMAIN q = 1..Len(q) /\ Len(q) \in Nat
  /\ Len(q) = IF Len(s) + 1 > cap THEN cap ELSE Len(s) + 1
  /\ \A i \in 1..Len(q) : q[i] = IF i = 1 THEN e ELSE s[i - 1]

LEMMA NewestFacts ==
  ASSUME NEW S, NEW e \in S, NEW s \in Seq(S), NEW cap \in Nat,
         NEW q, q = Newest(<<e>> \o s, cap)
  PROVE  Fronted(q, s, e, cap)
<1> DEFINE a == <<e>> \o s
<1>1. <<e>> \in Seq(S) /\ Len(<<e>>) = 1 /\ <<e>>[1] = e /\ Len(s) \in Nat
  BY LenProperties
<1>2. /\ a \in Seq(S) /\ Len(a) = Len(s) + 1
      /\ \A i \in 1..Len(a) : a[i] = IF i = 1 THEN e ELSE s[i - 1]
  <2>1. /\ a \in Seq(S) /\ Len(a) = 1 + Len(s)
        /\ \A i \in 1..(1 + Len(s)) : a[i] = IF i <= 1 THEN <<e>>[i] ELSE s[i - 1]
    BY <1>1, ConcatProperties
  <2> HIDE DEF a
  <2> QED BY <1>1, <2>1
<1> HIDE DEF a
<1>3. q = Newest(a, cap)
  BY DEF a
<1>4. CASE Len(a) > cap
  <2>1. \A i \in 1..cap : a[i] \in S
    BY <1>2, <1>4, ElementOfSeq
  <2>2. SubSeq(a, 1, cap) \in Seq(S)
    BY <2>1, SubSeqProperties
  <2>3. Len(SubSeq(a, 1, cap)) = cap /\ \A i \in 1..cap : SubSeq(a, 1, cap)[i] = a[i]
    BY <2>1, SubSeqProperties
  <2>4. q = SubSeq(a, 1, cap)
    BY <1>3, <1>4 DEF Newest
  <2>5. Len(q) = cap /\ DOMAIN q = 1..Len(q)
    BY <2>2, <2>3, <2>4, LenProperties
  <2>6. \A i \in 1..cap : q[i] = a[i] /\ i \in 1..Len(a)
    BY <1>1, <1>2, <1>4, <2>3, <2>4
  <2> QED BY <1>1, <1>2, <1>4, <2>5, <2>6 DEF Fronted
<1>5. CASE ~ (Len(a) > cap)
  <2>1. q = a
    BY <1>3, <1>5 DEF Newest
  <2>2. DOMAIN q = 1..Len(q) /\ Len(q) \in Nat
    BY <1>2, <2>1, LenProperties
  <2> QED BY <1>1, <1>2, <1>5, <2>1, <2>2 DEF Fronted
<1> QED BY <1>4, <1>5

(* A full list of cycles stays as long as it is.                           *)
LEMMA LatestLength ==
  ASSUME NEW S, NEW s \in Seq(S), NEW e \in S, NEW cap \in Nat, Len(s) <= cap
  PROVE  Len(Latest(Append(s, e), cap)) <= cap
<1> DEFINE a == Append(s, e)
<1>1. a \in Seq(S) /\ Len(a) = Len(s) + 1 /\ Len(s) \in Nat
  BY AppendProperties, LenProperties
<1>2. CASE Len(a) > cap
  <2>1. a # <<>>
    BY <1>1
  <2>2. Len(Tail(a)) = Len(a) - 1
    BY <1>1, <2>1, HeadTailProperties
  <2> HIDE DEF a
  <2>3. Len(Latest(a, cap)) <= cap
    BY <1>1, <1>2, <2>2 DEF Latest
  <2> QED BY <2>3 DEF a
<1>3. CASE ~ (Len(a) > cap)
  <2> HIDE DEF a
  <2>1. Len(Latest(a, cap)) <= cap
    BY <1>1, <1>3 DEF Latest
  <2> QED BY <2>1 DEF a
<1> QED BY <1>2, <1>3

LEMMA EmptyListed == Listed(EmptyLedger)
<1>1. /\ EmptyLedger.cycles = <<>> /\ EmptyLedger.eliminated = <<>>
      /\ EmptyLedger.exclusions = <<>> /\ EmptyLedger.stolen = {}
  BY DEF EmptyLedger
<1>2. Len(<<>>) = 0 /\ DOMAIN <<>> = {}
  OBVIOUS
<1>3. TheftsListed(EmptyLedger)
  BY <1>1, <1>2 DEF TheftsListed
<1>4. LeadersListed(EmptyLedger)
  BY <1>1, <1>2, Constants DEF LeadersListed
<1> QED BY <1>3, <1>4 DEF Listed

(* A new theft is of a name that no record has: findCommitted() passes     *)
(* over the stolen ones.                                                   *)
LEMMA CheckedListed ==
  ASSUME NEW l \in Ledger, NEW t \in Tokens, NEW n, Listed(l)
  PROVE  Listed(Checked(l, t, n))
<1> DEFINE q == Checked(l, t, n)
<1>1. CASE ~ Theft(l, t, n)
  BY <1>1 DEF Checked
<1>2. CASE Theft(l, t, n)
  <2> DEFINE e == TheftRecord(l, t, n)
             ex == Newest(<<e>> \o l.exclusions, ExclusionCap)
  <2>1. Holding(l, n) # {} /\ n \notin l.stolen /\ Launched[t] > l.cycles[First(l, n)].at
    BY <1>2 DEF Theft, FindCommitted
  <2>2. First(l, n) \in DOMAIN l.cycles /\ n \in Names
    BY <2>1, FirstFacts DEF Holding
  <2>3. l.cycles[First(l, n)] \in Cycle
    BY <2>2, LedgerParts
  <2>4. /\ e \in Exclusion /\ e.name = n /\ e.token = t
        /\ e.firstSeenAt < Launched[t]
    <3>1. e.firstSeenAt = l.cycles[First(l, n)].at /\ e.firstSeenAt \in Nat
      BY <2>3 DEF TheftRecord, Cycle
    <3>2. Launched[t] \in Nat
      BY Constants
    <3>3. e \in Exclusion /\ e.name = n /\ e.token = t
      BY <2>2, <2>3 DEF TheftRecord, Exclusion, Cycle
    <3> HIDE DEF e
    <3> QED BY <2>1, <3>1, <3>2, <3>3
  <2>5. l.exclusions \in Seq(Exclusion) /\ ExclusionCap \in Nat /\ ExclusionCap # 0
    BY LedgerParts, CommitmentsAssumption
  <2>6. Len(l.exclusions) \in Nat /\ DOMAIN l.exclusions = 1..Len(l.exclusions)
    BY <2>5, LenProperties
  <2>7. /\ q.exclusions = ex /\ q.stolen = l.stolen \cup {n}
        /\ q.cycles = l.cycles /\ q.eliminated = l.eliminated
    BY <1>2 DEF Checked, Ledger
  <2> HIDE DEF e
  <2>8. /\ DOMAIN ex = 1..Len(ex) /\ Len(ex) \in Nat
        /\ Len(ex) = IF Len(l.exclusions) + 1 > ExclusionCap THEN ExclusionCap ELSE Len(l.exclusions) + 1
        /\ \A i \in 1..Len(ex) : ex[i] = IF i = 1 THEN e ELSE l.exclusions[i - 1]
    <3>1. ex = Newest(<<e>> \o l.exclusions, ExclusionCap)
      OBVIOUS
    <3> HIDE DEF ex
    <3>2. Fronted(ex, l.exclusions, e, ExclusionCap)
      BY <2>4, <2>5, <3>1, NewestFacts
    <3> QED BY <3>2 DEF Fronted
  <2> HIDE DEF ex, q
  <2>9. \A i \in DOMAIN ex : i # 1 => i - 1 \in DOMAIN l.exclusions /\ ex[i] = l.exclusions[i - 1]
    BY <2>6, <2>8
  <2>10. \A i \in DOMAIN l.exclusions : l.exclusions[i].name # n
    BY <2>1 DEF Listed, TheftsListed
  <2>11. ASSUME NEW i \in DOMAIN ex, NEW j \in DOMAIN ex, ex[i].name = ex[j].name PROVE i = j
    <3>1. CASE i = 1 \/ j = 1
      BY <2>4, <2>8, <2>9, <2>10, <2>11, <3>1
    <3>2. CASE i # 1 /\ j # 1
      <4>1. i - 1 = j - 1
        BY <2>9, <2>11, <3>2 DEF Listed, TheftsListed
      <4> QED BY <2>8, <4>1
    <3> QED BY <3>1, <3>2
  <2>12. ASSUME NEW i \in DOMAIN ex
         PROVE  ex[i].name \in l.stolen \cup {n} /\ ex[i].firstSeenAt < Launched[ex[i].token]
    <3>1. CASE i = 1
      BY <2>4, <2>8, <3>1
    <3>2. CASE i # 1
      BY <2>9, <3>2 DEF Listed, TheftsListed
    <3> QED BY <3>1, <3>2
  <2>13. ASSUME Len(ex) < ExclusionCap, NEW m \in l.stolen \cup {n}
         PROVE  \E i \in DOMAIN ex : ex[i].name = m
    <3>1. Len(ex) = Len(l.exclusions) + 1 /\ Len(l.exclusions) < ExclusionCap
      BY <2>5, <2>6, <2>8, <2>13
    <3>2. CASE m = n
      BY <2>4, <2>6, <2>8, <3>1, <3>2
    <3>3. CASE m \in l.stolen
      <4>1. PICK i \in DOMAIN l.exclusions : l.exclusions[i].name = m
        BY <3>1, <3>3 DEF Listed, TheftsListed
      <4>2. i + 1 \in DOMAIN ex /\ ex[i + 1] = l.exclusions[i]
        BY <2>6, <2>8, <3>1
      <4> QED BY <4>1, <4>2
    <3> QED BY <2>13, <3>2, <3>3
  <2>14. TheftsListed(q)
    BY <2>7, <2>11, <2>12, <2>13 DEF TheftsListed
  <2>15. LeadersListed(q)
    BY <2>7 DEF Listed, LeadersListed
  <2> QED BY <2>14, <2>15 DEF Listed, q
<1> QED BY <1>1, <1>2

(* A demotion comes first on the list and moves the others down by one.    *)
LEMMA DemotionListed ==
  ASSUME NEW l \in Ledger, NEW c \in Cycle, Demoted(l, c)
  PROVE  Fronted(Eliminated(l, c), l.eliminated, Demotion(l, c), EliminatedCap)
<1> DEFINE prev == l.cycles[Len(l.cycles)]
<1>1. l.cycles # <<>> /\ prev.lead # NoLeader
  BY DEF Demoted
<1>2. Len(l.cycles) \in 1..Len(l.cycles)
  BY <1>1, LedgerParts, EmptySeq
<1>3. prev \in Cycle
  BY <1>2, LedgerParts
<1>4. Demotion(l, c) \in Elimination
  BY <1>1, <1>3 DEF Demotion, Cycle, Elimination
<1>5. Eliminated(l, c) = Newest(<<Demotion(l, c)>> \o l.eliminated, EliminatedCap)
  BY DEF Eliminated
<1>6. l.eliminated \in Seq(Elimination) /\ EliminatedCap \in Nat
  BY LedgerParts, Constants
<1> QED BY <1>4, <1>5, <1>6, NewestFacts

(* A published cycle makes at most one new pair, and every pair that stays *)
(* is one older than it was.                                               *)
LEMMA PublishedListed ==
  ASSUME NEW l \in Ledger, NEW c \in Cycle, Listed(l)
  PROVE  Listed(Published(l, c))
<1> DEFINE q == Published(l, c)
           cs == Latest(Append(l.cycles, c), Keep)
           el == Eliminated(l, c)
           n == Len(l.cycles)
<1>1. /\ q.cycles = cs /\ q.eliminated = el
      /\ q.exclusions = l.exclusions /\ q.stolen = l.stolen
  <2>1. q = [l EXCEPT !.next = l.next + 1, !.eliminated = el, !.cycles = cs]
    BY DEF Published
  <2> HIDE DEF cs, el, q
  <2> QED BY <2>1 DEF Ledger
<1>2. /\ l.cycles \in Seq(Cycle) /\ l.eliminated \in Seq(Elimination) /\ n \in Nat
      /\ DOMAIN l.cycles = 1..n
      /\ \A i \in 1..n : l.cycles[i] \in Cycle
  BY LedgerParts
<1>3. /\ Keep \in Nat /\ Keep # 0 /\ EliminatedCap \in Nat /\ EliminatedCap >= Keep - 1
      /\ Len(l.eliminated) \in Nat
  BY <1>2, CommitmentsAssumption, LenProperties
<1>4. n <= Keep /\ \A i \in 1..(n - 1) : Revised(l.cycles, i) =>
        \E j \in 1..Len(l.eliminated) : j <= n - i /\ l.eliminated[j] = Revision(l.cycles, i)
  BY DEF Listed, LeadersListed
<1>5. cs \in Seq(Cycle) /\ Pushed(cs, l.cycles, c)
  <2>1. cs = Latest(Append(l.cycles, c), Keep)
    OBVIOUS
  <2> HIDE DEF cs
  <2> QED BY <1>2, <1>3, <2>1, LatestFacts
<1>6. Len(cs) <= Keep
  <2> HIDE DEF n
  <2>1. Len(l.cycles) <= Keep
    BY <1>4 DEF n
  <2> QED BY <1>2, <1>3, <2>1, LatestLength
<1>7. Demoted(l, c) <=> n # 0 /\ l.cycles[n].lead # NoLeader /\ l.cycles[n].lead # c.lead
  <2>1. l.cycles = <<>> <=> n = 0
    BY <1>2, EmptySeq
  <2> QED BY <2>1 DEF Demoted
<1>8. Demotion(l, c) = [name |-> l.cycles[n].lead, ledCycle |-> l.cycles[n].id, demotedCycle |-> c.id]
  BY DEF Demotion
<1>9. Demoted(l, c) => Fronted(el, l.eliminated, Demotion(l, c), EliminatedCap)
  BY DemotionListed
<1>10. ~ Demoted(l, c) => el = l.eliminated
  BY DEF Eliminated
<1> HIDE DEF cs, el, n
<1>11. PICK d \in {0, 1} : /\ Len(cs) = n + 1 - d
                           /\ \A i \in 1..Len(cs) : cs[i] = IF i + d <= n THEN l.cycles[i + d] ELSE c
  BY <1>5 DEF Pushed, n
<1>12. ASSUME NEW i \in 1..(Len(cs) - 1), Revised(cs, i)
       PROVE  \E j \in 1..Len(el) : j <= Len(cs) - i /\ el[j] = Revision(cs, i)
  <2>1. /\ i \in Nat /\ i >= 1 /\ i + d <= n /\ i + d \in 1..n /\ i \in 1..Len(cs) /\ i + 1 \in 1..Len(cs)
        /\ Len(cs) - i = n + 1 - (i + d)
    BY <1>2, <1>11
  <2>2. cs[i] = l.cycles[i + d]
    BY <1>11, <2>1
  <2>3. Len(cs) - i <= EliminatedCap
    BY <1>2, <1>3, <1>6, <1>11, <2>1
  <2>4. CASE i + d = n
    <3>1. cs[i + 1] = c
      BY <1>2, <1>11, <2>1, <2>4
    <3>2. Demoted(l, c) /\ Revision(cs, i) = Demotion(l, c)
      BY <1>2, <1>7, <1>8, <1>12, <2>1, <2>2, <2>4, <3>1 DEF Revised, Revision
    <3>3. Len(cs) - i = 1
      BY <1>2, <2>1, <2>4
    <3>4. /\ Len(el) = IF Len(l.eliminated) + 1 > EliminatedCap THEN EliminatedCap ELSE Len(l.eliminated) + 1
          /\ \A k \in 1..Len(el) : el[k] = IF k = 1 THEN Demotion(l, c) ELSE l.eliminated[k - 1]
      BY <1>9, <3>2 DEF Fronted
    <3>5. 1 \in 1..Len(el)
      BY <1>3, <2>3, <3>3, <3>4
    <3>6. el[1] = Demotion(l, c)
      BY <3>4, <3>5
    <3> QED BY <3>2, <3>3, <3>5, <3>6
  <2>5. CASE i + d # n
    <3>1. i + d \in 1..(n - 1) /\ cs[i + 1] = l.cycles[(i + d) + 1]
      BY <1>2, <1>11, <2>1, <2>5
    <3>2. Revised(l.cycles, i + d) /\ Revision(cs, i) = Revision(l.cycles, i + d)
      BY <1>12, <2>2, <3>1 DEF Revised, Revision
    <3>3. PICK j \in 1..Len(l.eliminated) : j <= n - (i + d) /\ l.eliminated[j] = Revision(l.cycles, i + d)
      BY <1>4, <3>1, <3>2
    <3>4. j \in Nat /\ j + 1 <= Len(cs) - i /\ j <= Len(cs) - i
      BY <1>2, <1>3, <2>1, <3>3
    <3>5. CASE Demoted(l, c)
      <4>1. /\ Len(el) = IF Len(l.eliminated) + 1 > EliminatedCap THEN EliminatedCap ELSE Len(l.eliminated) + 1
            /\ \A k \in 1..Len(el) : el[k] = IF k = 1 THEN Demotion(l, c) ELSE l.eliminated[k - 1]
        BY <1>9, <3>5 DEF Fronted
      <4>2. Len(cs) - i \in Nat
        BY <1>2, <2>1
      <4>3. j + 1 <= EliminatedCap /\ j + 1 <= Len(l.eliminated) + 1
        BY <1>3, <2>3, <3>3, <3>4, <4>2
      <4>4. j + 1 \in 1..Len(el)
        BY <1>3, <3>3, <3>4, <4>1, <4>3
      <4>5. j + 1 # 1 /\ (j + 1) - 1 = j
        BY <3>3
      <4>6. el[j + 1] = l.eliminated[j]
        BY <4>1, <4>4, <4>5
      <4> QED BY <3>2, <3>3, <3>4, <4>4, <4>6
    <3>6. CASE ~ Demoted(l, c)
      BY <1>10, <3>2, <3>3, <3>4, <3>6
    <3> QED BY <3>5, <3>6
  <2> QED BY <2>4, <2>5
<1> HIDE DEF q
<1>13. LeadersListed(q)
  BY <1>1, <1>6, <1>12 DEF LeadersListed
<1>14. TheftsListed(q)
  BY <1>1 DEF Listed, TheftsListed
<1> QED BY <1>13, <1>14 DEF Listed, q

LEMMA ListInit == Init => ListInv
<1> SUFFICES ASSUME Init PROVE ListInv
  OBVIOUS
<1>1. \A p \in Personas : ledgers[p] = EmptyLedger /\ stored.ledgers[p] = EmptyLedger
  BY DEF Init, Fresh
<1> QED BY <1>1, EmptyListed DEF ListInv

LEMMA ListStep ==
  ASSUME TypeOK, ListInv, [Next]_vars
  PROVE  ListInv'
<1>1. ASSUME NEW ls, \A p \in Personas : Listed(ls[p]), ledgers' = ls, stored' = stored PROVE ListInv'
  BY <1>1 DEF ListInv, Listed, TheftsListed, LeadersListed
<1>2. ASSUME NEW cycle \in Cycles, NEW m, NEW k, RunTo(cycle, m, k), stored' = stored PROVE ListInv'
  <2>1. ASSUME NEW p \in Personas PROVE Listed(ledgers'[p])
    <3>1. ledgers[p] \in Ledger /\ cycle[p] \in Cycle /\ Listed(ledgers[p])
      BY GeneratedFacts DEF TypeOK, ListInv
    <3>2. ledgers'[p] = Published(ledgers[p], cycle[p]) \/ ledgers'[p] = ledgers[p]
      BY <1>2 DEF RunTo
    <3> QED BY <3>1, <3>2, PublishedListed
  <2> QED BY <1>1, <1>2, <2>1
<1>3. CASE RunCycle
  BY <1>2, <1>3 DEF RunCycle
<1>4. ASSUME NEW k \in Personas, AppendFails(k) PROVE ListInv'
  BY <1>2, <1>4 DEF AppendFails
<1>5. ASSUME NEW t \in Tokens, Watch(t) \/ Label(t) PROVE ListInv'
  <2>1. PICK s \in {"pending", "labelled"} : \E n \in Names \cup {Unnamed} : Upsert(t, s, n)
    BY <1>5, UpsertSteps
  <2>2. PICK n \in Names \cup {Unnamed} : Upsert(t, s, n)
    BY <2>1
  <2>3. ASSUME NEW p \in Personas PROVE Listed(ledgers'[p])
    <3>1. ledgers[p] \in Ledger /\ Listed(ledgers[p])
      BY DEF TypeOK, ListInv
    <3>2. ledgers'[p] = Checked(ledgers[p], t, n) \/ ledgers'[p] = ledgers[p]
      BY <2>2 DEF Upsert
    <3> QED BY <3>1, <3>2, CheckedListed
  <2>4. stored' = stored
    BY <2>2 DEF Upsert
  <2> QED BY <1>1, <2>3, <2>4
<1>6. ASSUME UNCHANGED <<ledgers, stored>> PROVE ListInv'
  BY <1>1, <1>6 DEF ListInv
<1>7. ASSUME NEW t \in Tokens, Remove(t) PROVE ListInv'
  BY <1>6, <1>7 DEF Remove
<1>8. ASSUME NEW p \in Personas, Serve(p) PROVE ListInv'
  BY <1>6, <1>8 DEF Serve, agent
<1>9. CASE SaveState
  <2>1. stored'.ledgers = ledgers /\ ledgers' = ledgers
    BY <1>9 DEF SaveState, agent
  <2> QED BY <2>1 DEF ListInv, Listed, TheftsListed, LeadersListed
<1>10. CASE Reload
  <2>1. ledgers' = stored.ledgers /\ stored' = stored
    BY <1>10 DEF Reload
  <2> QED BY <1>1, <2>1 DEF ListInv
<1>11. CASE Tick \/ UNCHANGED vars
  BY <1>6, <1>11 DEF Tick, vars, agent
<1> QED BY <1>3, <1>4, <1>5, <1>7, <1>8, <1>9, <1>10, <1>11 DEF Next, Restart, KilledInRun

(* A name is recorded as taken once, after the commitment, and no record   *)
(* is missing while the list has room; restarts neither lose nor repeat    *)
(* one (ledger.ts, recordTheft).                                           *)
THEOREM TheftsRecordedOnce == Spec => []OneRecordPerTheft
<1>1. TypeOK /\ ListInv /\ [Next]_vars => ListInv'
  BY ListStep
<1>2. TypeOK /\ ListInv => OneRecordPerTheft
  <2> SUFFICES ASSUME TypeOK, ListInv, NEW p \in Personas
               PROVE  LET l == ledgers[p]
                          recorded == {l.exclusions[i].name : i \in DOMAIN l.exclusions} IN
                      /\ recorded \subseteq l.stolen
                      /\ Cardinality(recorded) = Len(l.exclusions)
                      /\ Len(l.exclusions) < ExclusionCap => recorded = l.stolen
                      /\ \A i \in DOMAIN l.exclusions :
                           l.exclusions[i].firstSeenAt < Launched[l.exclusions[i].token]
    BY DEF OneRecordPerTheft
  <2> DEFINE ex == ledgers[p].exclusions
             recorded == {ex[i].name : i \in DOMAIN ex}
             f == [i \in 1..Len(ex) |-> ex[i].name]
  <2>1. TheftsListed(ledgers[p])
    BY DEF ListInv, Listed
  <2>2. ex \in Seq(Exclusion)
    BY LedgerParts DEF TypeOK
  <2>3. DOMAIN ex = 1..Len(ex) /\ Len(ex) \in Nat
    BY <2>2, LenProperties
  <2>4. recorded \subseteq ledgers[p].stolen /\ (Len(ex) < ExclusionCap => recorded = ledgers[p].stolen)
    BY <2>1 DEF TheftsListed
  <2>5. f \in Bijection(1..Len(ex), recorded)
    <3>1. f \in [1..Len(ex) -> recorded]
      BY <2>3
    <3>2. \A i, j \in 1..Len(ex) : f[i] = f[j] => i = j
      BY <2>1, <2>3 DEF TheftsListed
    <3>3. \A x \in recorded : \E i \in 1..Len(ex) : f[i] = x
      BY <2>3
    <3> HIDE DEF f, recorded, ex
    <3> QED BY <3>1, <3>2, <3>3 DEF Bijection, Injection, Surjection, IsInjective
  <2>6. Cardinality(recorded) = Len(ex)
    <3> HIDE DEF f, recorded, ex
    <3>1. ExistsBijection(1..Len(ex), recorded)
      BY <2>5 DEF ExistsBijection
    <3> QED BY <2>3, <3>1, FS_CountingElements
  <2> QED BY <2>1, <2>4, <2>6 DEF TheftsListed
<1> QED BY <1>1, <1>2, ListInit, TypeCorrect, PTL DEF Spec

(* Every kept leader that lost its rank is on the list of revisions, as    *)
(* long as the list holds a record for every kept pair; Commitments        *)
(* assumes so, and the code keeps 48 cycles and 50 revisions (ledger.ts,   *)
(* publish).                                                               *)
THEOREM RevisionsRecorded == Spec => []LeadersRecorded
<1>1. TypeOK /\ ListInv /\ [Next]_vars => ListInv'
  BY ListStep
<1>2. TypeOK /\ ListInv => LeadersRecorded
  <2> SUFFICES ASSUME TypeOK, ListInv, NEW p \in Personas, NEW i \in 2..Len(ledgers[p].cycles),
                      ledgers[p].cycles[i - 1].lead # NoLeader,
                      ledgers[p].cycles[i - 1].lead # ledgers[p].cycles[i].lead
               PROVE  \E j \in DOMAIN ledgers[p].eliminated :
                        ledgers[p].eliminated[j] = Revision(ledgers[p].cycles, i - 1)
    <3>1. ASSUME NEW p \in Personas, NEW i \in 2..Len(ledgers[p].cycles)
          PROVE  (i - 1) + 1 = i
      BY LedgerParts DEF TypeOK
    <3> QED BY <3>1 DEF LeadersRecorded, Revision
  <2> DEFINE cs == ledgers[p].cycles
             el == ledgers[p].eliminated
  <2>1. LeadersListed(ledgers[p])
    BY DEF ListInv, Listed
  <2>2. Len(cs) \in Nat /\ DOMAIN el = 1..Len(el)
    BY LedgerParts, LenProperties DEF TypeOK
  <2>3. i - 1 \in 1..(Len(cs) - 1) /\ (i - 1) + 1 = i
    BY <2>2
  <2>4. Revised(cs, i - 1)
    BY <2>3 DEF Revised
  <2>5. \E j \in 1..Len(el) : el[j] = Revision(cs, i - 1)
    BY <2>1, <2>3, <2>4 DEF LeadersListed
  <2> QED BY <2>2, <2>5
<1> QED BY <1>1, <1>2, ListInit, TypeCorrect, PTL DEF Spec
=============================================================================
