------------------------------ MODULE PaperProofs ------------------------------
(***************************************************************************)
(* Theorems about PaperTrader, for any tokens, limits and old files.       *)
(***************************************************************************)
EXTENDS PaperTrader, SequenceTheorems, FiniteSetTheorems, TLAPS

(* The last k elements of s are in X.                                      *)
Ending(k, s, X) == k <= Len(s) /\ \A j \in DOMAIN s : j > Len(s) - k => s[j] \in X

(* What Latest returns.                                                    *)
LEMMA LatestProperties ==
  ASSUME NEW S, NEW t \in Seq(S), NEW n \in Nat \ {0}
  PROVE  LET m == IF Len(t) > n THEN n ELSE Len(t) IN
         /\ Latest(n, t) \in Seq(S) /\ Len(Latest(n, t)) = m
         /\ \A i \in 1..m : Latest(n, t)[i] = t[Len(t) - m + i]
<1>1. Len(t) \in Nat /\ \A i \in 1..Len(t) : t[i] \in S BY LenProperties, ElementOfSeq
<1>2. CASE Len(t) > n
  <2> DEFINE lo == Len(t) - n + 1  u == SubSeq(t, lo, Len(t))
  <2>1. lo \in Int /\ Len(t) \in Int /\ lo <= Len(t) /\ Len(t) - lo + 1 = n BY <1>1, <1>2
  <2>2. \A i \in lo..Len(t) : t[i] \in S BY <1>1, <1>2
  <2> HIDE DEF lo
  <2>3. u \in Seq(S) /\ Len(u) = Len(t) - lo + 1 /\ \A i \in 1..Len(t) - lo + 1 : u[i] = t[lo + i - 1]
    BY <2>1, <2>2, SubSeqProperties
  <2>4. u = Latest(n, t) BY <1>2 DEF Latest, lo
  <2>5. \A i \in 1..n : lo + i - 1 = Len(t) - n + i BY <1>1 DEF lo
  <2> QED BY <1>2, <2>1, <2>3, <2>4, <2>5
<1>3. CASE ~(Len(t) > n)
  <2>1. Latest(n, t) = t BY <1>3 DEF Latest
  <2> QED BY <1>1, <1>3, <2>1
<1> QED BY <1>2, <1>3

LEMMA LatestType ==
  ASSUME NEW S, NEW s \in Seq(S), NEW x \in S, NEW n \in Nat \ {0}
  PROVE  /\ Latest(n, Append(s, x)) \in Seq(S)
         /\ Len(Latest(n, Append(s, x))) <= n
         /\ Last(Latest(n, Append(s, x))) = x
<1> DEFINE t == Append(s, x)  m == IF Len(t) > n THEN n ELSE Len(t)
<1>1. t \in Seq(S) /\ Len(t) = Len(s) + 1 /\ Len(s) \in Nat /\ t[Len(t)] = x
  BY AppendProperties, LenProperties
<1>2. m \in 1..n /\ Len(t) - m + m = Len(t) BY <1>1
<1>3. /\ Latest(n, t) \in Seq(S) /\ Len(Latest(n, t)) = m
      /\ \A i \in 1..m : Latest(n, t)[i] = t[Len(t) - m + i]
  BY <1>1, LatestProperties
<1>4. Latest(n, t)[m] = t[Len(t) - m + m]
  <2>1. m \in 1..m BY <1>2
  <2> HIDE DEF m, t
  <2> QED BY ONLY <1>3, <2>1
<1> QED BY <1>1, <1>2, <1>3, <1>4 DEF Last

LEMMA EndingGrows ==
  ASSUME NEW S, NEW s \in Seq(S), NEW x \in S, NEW n \in Nat \ {0}, NEW k \in Nat, k + 1 <= n,
         NEW X, Ending(k, s, X), x \in X
  PROVE  Ending(k + 1, Latest(n, Append(s, x)), X)
<1> DEFINE t == Append(s, x)  m == IF Len(t) > n THEN n ELSE Len(t)
<1>1. /\ t \in Seq(S) /\ Len(t) = Len(s) + 1 /\ Len(s) \in Nat /\ t[Len(t)] = x
      /\ \A i \in 1..Len(s) : t[i] = s[i]
  BY AppendProperties, LenProperties
<1>2. k <= Len(s) /\ \A j \in 1..Len(s) : j > Len(s) - k => s[j] \in X BY LenProperties DEF Ending
<1>3. \A j \in 1..Len(t) : j > Len(t) - (k + 1) => t[j] \in X BY <1>1, <1>2
<1>4. m \in 1..n /\ k + 1 <= m /\ m <= Len(t) BY <1>1, <1>2
<1>5. /\ Latest(n, t) \in Seq(S) /\ Len(Latest(n, t)) = m
      /\ \A i \in 1..m : Latest(n, t)[i] = t[Len(t) - m + i]
  BY <1>1, LatestProperties
<1>6. DOMAIN Latest(n, t) = 1..m BY <1>5, LenProperties
<1> HIDE DEF m, t
<1>7. \A j \in 1..m : j > m - (k + 1) => Latest(n, t)[j] \in X
  <2> TAKE j \in 1..m
  <2> HAVE j > m - (k + 1)
  <2>1. Len(t) - m + j \in 1..Len(t) /\ Len(t) - m + j > Len(t) - (k + 1) BY <1>1, <1>4
  <2> QED BY <1>3, <1>5, <2>1
<1> QED BY <1>4, <1>5, <1>6, <1>7 DEF Ending, t

(* A history as long as the rule, with an end as long, is all of that end. *)
LEMMA AllOfIt ==
  ASSUME NEW S, NEW s \in Seq(S), NEW n \in Nat, Len(s) <= n, NEW X, Ending(n, s, X)
  PROVE  All(n, s, X)
<1>1. Len(s) \in Nat /\ DOMAIN s = 1..Len(s) BY LenProperties
<1>2. n <= Len(s) BY DEF Ending
<1>3. \A j \in 1..n : j > n - n BY SMT
<1>4. \A i, j \in Nat : i <= j /\ j <= i => i = j BY SMT
<1>5. Len(s) = n BY <1>1, <1>2, <1>4, Zenon
<1> QED BY <1>1, <1>3, <1>5 DEF All, Ending

-----------------------------------------------------------------------------
(* One position: what the counters of an open one say of its quotes, and   *)
(* what an exit says.                                                      *)
Counts(p) ==
  IsOpen(p) => /\ Short(p)
               /\ Ending(p.missedQuotes, p.answers, {"none"})
               /\ Ending(p.breaches, p.priced, Breaches)
Confirmed(p) ==
  /\ p.exit = "no_route" => All(MissedToClose, p.answers, {"none"})
  /\ p.exit \in Breaches => All(Confirmations, p.priced, Breaches) /\ p.exit = Last(p.priced)
Good(p) == p \in PaperPosition /\ Counts(p) /\ Confirmed(p) /\ ~BadStop(p)

LEMMA MissedGood ==
  ASSUME PaperAssumption, NEW p, Good(p), IsOpen(p)
  PROVE  Good(Missed(p)) /\ Missed(p).mint = p.mint
<1> DEFINE h == Latest(MissedToClose, Append(p.answers, "none"))
           q == [[p EXCEPT !.answers = h] EXCEPT !.missedQuotes = p.missedQuotes + 1]
<1>1. MissedToClose \in Nat \ {0} /\ p \in PaperPosition /\ p.exit = "open"
      /\ p.answers \in Seq(Priced \cup {"none"}) /\ p.missedQuotes \in Nat /\ "none" \in Priced \cup {"none"}
      /\ p.missedQuotes < MissedToClose /\ p.breaches < Confirmations
      /\ Ending(p.missedQuotes, p.answers, {"none"}) /\ Ending(p.breaches, p.priced, Breaches)
  BY DEF PaperAssumption, PaperPosition, Good, Counts, IsOpen, Short
<1>2. h \in Seq(Priced \cup {"none"}) /\ Len(h) <= MissedToClose BY <1>1, LatestType
<1>3. p.missedQuotes + 1 <= MissedToClose BY <1>1 DEF PaperPosition
<1>4. Ending(p.missedQuotes + 1, h, {"none"}) BY <1>1, <1>3, EndingGrows
<1> HIDE DEF h
<1>5. [p EXCEPT !.answers = h] \in PaperPosition BY <1>1, <1>2 DEF PaperPosition
<1>6. p.missedQuotes + 1 \in Nat BY <1>1
<1>7. /\ q \in PaperPosition /\ q.exit = "open" /\ q.answers = h /\ q.priced = p.priced /\ q.mint = p.mint
      /\ q.missedQuotes = p.missedQuotes + 1 /\ q.breaches = p.breaches
  BY <1>1, <1>2, <1>5, <1>6 DEF PaperPosition
<1>8. Missed(p) = IF q.missedQuotes >= MissedToClose THEN Close(q, "no_route") ELSE q
  BY DEF Missed, Answered, h
<1>9. CASE q.missedQuotes >= MissedToClose
  <2> DEFINE r == Close(q, "no_route")
  <2>1. /\ r \in PaperPosition /\ r.exit = "no_route" /\ r.answers = h /\ r.mint = p.mint
    BY <1>7 DEF Close, PaperPosition, Exits, Breaches
  <2>2. Ending(MissedToClose, h, {"none"})
    <3>1. p.missedQuotes + 1 = MissedToClose BY <1>1, <1>3, <1>7, <1>9
    <3> QED BY <1>4, <3>1
  <2>3. All(MissedToClose, h, {"none"}) BY <1>1, <1>2, <2>2, AllOfIt
  <2> QED BY <1>8, <1>9, <2>1, <2>3 DEF Good, Counts, Confirmed, IsOpen, BadStop, Breaches
<1>10. CASE ~(q.missedQuotes >= MissedToClose)
  <2>1. Short(q) BY <1>1, <1>7, <1>10 DEF Short
  <2>2. Counts(q) BY <1>1, <1>4, <1>7, <2>1 DEF Counts
  <2> QED BY <1>7, <1>8, <1>10, <2>2 DEF Good, Confirmed, BadStop, Breaches
<1> QED BY <1>9, <1>10

LEMMA ValuedGood ==
  ASSUME PaperAssumption, NEW p, Good(p), IsOpen(p), NEW a \in Priced, NEW now
  PROVE  Good(Valued(p, a, now)) /\ Valued(p, a, now).mint = p.mint
<1> DEFINE h == Latest(MissedToClose, Append(p.answers, a))
           g == Latest(Confirmations, Append(p.priced, a))
           n == IF a \in Breaches THEN p.breaches + 1 ELSE 0
           q == [[p EXCEPT !.answers = h] EXCEPT !.missedQuotes = 0, !.breaches = n, !.priced = g]
<1>1. MissedToClose \in Nat \ {0} /\ Confirmations \in Nat \ {0} /\ p \in PaperPosition /\ p.exit = "open"
      /\ p.answers \in Seq(Priced \cup {"none"}) /\ p.priced \in Seq(Priced) /\ p.breaches \in Nat
      /\ a \in Priced \cup {"none"} /\ p.breaches < Confirmations /\ Ending(p.breaches, p.priced, Breaches)
  BY DEF PaperAssumption, PaperPosition, Good, Counts, IsOpen, Short
<1>2. h \in Seq(Priced \cup {"none"}) BY <1>1, LatestType
<1>3. p.priced \in Seq(Priced) /\ Confirmations \in Nat \ {0} BY <1>1
<1>4. g \in Seq(Priced) /\ Len(g) <= Confirmations /\ Last(g) = a BY ONLY <1>3, a \in Priced, LatestType, ZenonT(60)
<1>5. n \in Nat /\ n <= Confirmations BY <1>1
<1>6. Ending(n, g, Breaches)
  <2>1. CASE a \in Breaches
    <3>1. p.breaches + 1 <= Confirmations BY <1>1
    <3> QED BY <1>1, <2>1, <3>1, EndingGrows
  <2>2. CASE a \notin Breaches
    <3>1. Len(g) \in Nat /\ DOMAIN g = 1..Len(g) BY <1>4, LenProperties
    <3> QED BY <2>2, <3>1 DEF Ending
  <2> QED BY <2>1, <2>2
<1>7. a \notin Breaches => n = 0 OBVIOUS
<1>8. Ending(0, h, {"none"})
  <2>1. Len(h) \in Nat /\ DOMAIN h = 1..Len(h) BY <1>2, LenProperties
  <2> QED BY <2>1 DEF Ending
<1>9. Valued(p, a, now) = IF a \in Breaches /\ q.breaches >= Confirmations THEN Close(q, a)
                          ELSE IF TimeIsUp(q, now) THEN Close(q, "time_stop") ELSE q
  BY DEF Valued, Counted, Answered
<1> HIDE DEF h, g, n
<1>10. /\ q \in PaperPosition /\ q.exit = "open" /\ q.answers = h /\ q.priced = g /\ q.mint = p.mint
      /\ q.missedQuotes = 0 /\ q.breaches = n
  BY <1>1, <1>2, <1>4, <1>5 DEF PaperPosition
<1> HIDE DEF q
<1>11. CASE a \in Breaches /\ q.breaches >= Confirmations
  <2> DEFINE r == Close(q, a)
  <2>1. r \in PaperPosition /\ r.exit = a /\ r.priced = g /\ r.mint = p.mint /\ r.worthless = (a = "no_route")
    BY <1>10, <1>11 DEF Close, PaperPosition, Exits, Breaches
  <2>2. n = Confirmations BY <1>1, <1>5, <1>10, <1>11
  <2>3. All(Confirmations, g, Breaches) BY <1>1, <1>4, <1>6, <2>2, AllOfIt
  <2> QED BY <1>4, <1>9, <1>11, <2>1, <2>3 DEF Good, Counts, Confirmed, IsOpen, BadStop, Breaches
<1>12. CASE ~(a \in Breaches /\ q.breaches >= Confirmations) /\ TimeIsUp(q, now)
  <2> DEFINE r == Close(q, "time_stop")
  <2>1. r \in PaperPosition /\ r.exit = "time_stop" /\ r.mint = p.mint
    BY <1>10 DEF Close, PaperPosition, Exits, Breaches
  <2> QED BY <1>9, <1>12, <2>1 DEF Good, Counts, Confirmed, IsOpen, BadStop, Breaches
<1>13. CASE ~(a \in Breaches /\ q.breaches >= Confirmations) /\ ~TimeIsUp(q, now)
  <2>1. n < Confirmations BY <1>1, <1>5, <1>7, <1>10, <1>13
  <2>2. Short(q) BY <1>1, <1>10, <2>1 DEF Short
  <2>3. Counts(q) BY <1>6, <1>8, <1>10, <2>2 DEF Counts
  <2> QED BY <1>9, <1>10, <1>13, <2>3 DEF Good, Confirmed, BadStop, Breaches
<1> QED BY <1>11, <1>12, <1>13

-----------------------------------------------------------------------------
(* A list of positions: what is not an old result is Good, no token is in  *)
(* it twice, and no more are open than may be.                             *)
Early(i, p) == \E f \in OldFiles : i \in DOMAIN f /\ p = f[i]
Stands(i, p) == p \in PaperPosition /\ Counts(p) /\ ~BadStop(p) /\ (Early(i, p) \/ Confirmed(p))
Once(list) == \A i, j \in DOMAIN list : list[i].mint = list[j].mint => i = j
Limited(list) ==
  LET opened == Cardinality(OpenOnes(list)) IN
  opened <= MaxOpen \/ \E f \in OldFiles : opened <= Cardinality(OpenOnes(Repaired(f)))
Sound(list) == /\ list \in Seq(PaperPosition) /\ \A i \in DOMAIN list : Stands(i, list[i])
               /\ Once(list) /\ Limited(list)

(* What a tick has read still is so where it is used.                      *)
TickReads ==
  /\ tick \in [step : {"idle", "buy", "value"}, now : Nat, todo : SUBSET Tokens, open : SUBSET DOMAIN positions]
  /\ \A i \in tick.open : IsOpen(positions[i])
  /\ tick.step = "buy" => tick.open = OpenOnes(positions) /\ tick.todo \cap Seen(positions) = {}

(* Memory is ahead of a file that was read, and agrees with it on results. *)
Agrees ==
  /\ Len(file) <= Len(positions)
  /\ \A i \in DOMAIN file : IsOpen(file[i]) \/ BadStop(file[i]) \/ positions[i] = file[i]
FileBehind == file \in Seq(PaperPosition) /\ unread \in BOOLEAN /\ (unread \/ Agrees)

Counters == stopped \in BOOLEAN /\ clock \in Nat /\ outages \in Nat /\ crashes \in Nat
IInv == Sound(positions) /\ Sound(Repaired(file)) /\ FileBehind /\ TickReads /\ Counters

LEMMA IInvImplies ==
  ASSUME IInv
  PROVE  TypeOK /\ OncePerToken /\ OpenWithinLimit /\ ExitsConfirmed
<1>1. TypeOK BY DEF IInv, Sound, Stands, FileBehind, TickReads, Counters, TypeOK, Counts, Short
<1>2. OncePerToken BY DEF IInv, Sound, Once, OncePerToken
<1>3. OpenWithinLimit BY DEF IInv, Sound, Limited, OpenWithinLimit
<1>4. ExitsConfirmed BY DEF IInv, Sound, Stands, Early, Confirmed, ExitsConfirmed
<1> QED BY <1>1, <1>2, <1>3, <1>4

(* A list without stop losses at nothing is repaired already.              *)
LEMMA RepairedAlready ==
  ASSUME NEW list \in Seq(PaperPosition), \A i \in DOMAIN list : ~BadStop(list[i])
  PROVE  Repaired(list) = list
<1>1. DOMAIN list = 1..Len(list) /\ list = [i \in 1..Len(list) |-> list[i]] BY LenProperties
<1> QED BY <1>1 DEF Repaired

LEMMA RepairedMints ==
  ASSUME NEW list \in Seq(PaperPosition)
  PROVE  /\ Repaired(list) \in Seq(PaperPosition) /\ Len(Repaired(list)) = Len(list)
         /\ DOMAIN Repaired(list) = DOMAIN list
         /\ \A i \in DOMAIN list : Repaired(list)[i].mint = list[i].mint
<1>1. DOMAIN list = 1..Len(list) /\ Len(list) \in Nat /\ \A i \in 1..Len(list) : list[i] \in PaperPosition
  BY LenProperties, ElementOfSeq
<1>2. \A p \in PaperPosition : Reopened(p) \in PaperPosition /\ Reopened(p).mint = p.mint
  <2>1. <<>> \in Seq(Priced) /\ <<>> \in Seq(Priced \cup {"none"}) BY EmptySeq
  <2> QED BY <2>1 DEF Reopened, PaperPosition
<1>3. \A i \in 1..Len(list) : (IF BadStop(list[i]) THEN Reopened(list[i]) ELSE list[i]) \in PaperPosition
  BY <1>1, <1>2
<1>4. Repaired(list) = [i \in 1..Len(list) |-> IF BadStop(list[i]) THEN Reopened(list[i]) ELSE list[i]]
  BY <1>1 DEF Repaired
<1> HIDE DEF Repaired
<1>5. Repaired(list) \in Seq(PaperPosition) /\ Len(Repaired(list)) = Len(list)
  BY <1>1, <1>3, <1>4, IsASeq
<1>6. \A i \in 1..Len(list) : Repaired(list)[i].mint = list[i].mint BY <1>1, <1>2, <1>4
<1> QED BY <1>1, <1>4, <1>5, <1>6

LEMMA OpenOnesFinite ==
  ASSUME NEW list \in Seq(PaperPosition)
  PROVE  IsFiniteSet(OpenOnes(list)) /\ Cardinality(OpenOnes(list)) \in Nat
<1>1. Len(list) \in Nat /\ DOMAIN list = 1..Len(list) BY LenProperties
<1>2. IsFiniteSet(1..Len(list)) BY <1>1, FS_Interval
<1>3. OpenOnes(list) \in SUBSET (1..Len(list)) BY <1>1 DEF OpenOnes
<1> QED BY <1>2, <1>3, FS_Subset, FS_CardinalityType

LEMMA OldSound ==
  ASSUME PaperAssumption, NEW f \in OldFiles
  PROVE  Sound(Repaired(f))
<1>1. f \in Seq(PaperPosition) BY DEF PaperAssumption
<1> DEFINE r == Repaired(f)
<1>2. /\ r \in Seq(PaperPosition) /\ DOMAIN r = DOMAIN f
      /\ \A i \in DOMAIN f : r[i].mint = f[i].mint
  BY <1>1, RepairedMints
<1>3. Once(r) BY <1>2 DEF PaperAssumption, Once
<1> HIDE DEF r
<1>4. Limited(r)
  <2>1. Cardinality(OpenOnes(r)) \in Nat BY <1>2, OpenOnesFinite
  <2>2. Cardinality(OpenOnes(r)) <= Cardinality(OpenOnes(r)) BY <2>1
  <2> QED BY <2>2 DEF Limited, r
<1>5. ASSUME NEW i \in DOMAIN r PROVE Stands(i, r[i])
  <2>1. i \in DOMAIN f /\ r[i] = IF BadStop(f[i]) THEN Reopened(f[i]) ELSE f[i] BY <1>2 DEF Repaired, r
  <2>2. f[i] \in PaperPosition /\ r[i] \in PaperPosition BY <1>1, <1>2, <1>5, <2>1, LenProperties, ElementOfSeq
  <2>3. /\ f[i].answers \in Seq(Priced \cup {"none"}) /\ f[i].priced \in Seq(Priced)
    BY <2>2 DEF PaperPosition
  <2>4. \A S : \A s \in Seq(S) : \A X : Ending(0, s, X)
    <3> TAKE S
    <3> TAKE s \in Seq(S)
    <3>1. Len(s) \in Nat /\ DOMAIN s = 1..Len(s) BY LenProperties
    <3> QED BY <3>1 DEF Ending
  <2>5. CASE BadStop(f[i])
    <3>1. /\ r[i].exit = "open" /\ r[i].missedQuotes = 0 /\ r[i].breaches = 0
          /\ r[i].answers = <<>> /\ r[i].priced = <<>>
      BY <2>1, <2>2, <2>5 DEF Reopened, PaperPosition
    <3>2. <<>> \in Seq(Priced) BY EmptySeq
    <3>3. Ending(0, <<>>, {"none"}) /\ Ending(0, <<>>, Breaches) BY <2>4, <3>2
    <3>4. 0 < MissedToClose /\ 0 < Confirmations BY DEF PaperAssumption
    <3>5. Counts(r[i]) BY <3>1, <3>3, <3>4 DEF Counts, Short
    <3> QED BY <2>2, <3>1, <3>5 DEF Stands, Confirmed, BadStop, Breaches
  <2>6. CASE ~BadStop(f[i])
    <3>1. f[i].exit = "open" => f[i].missedQuotes = 0 /\ f[i].breaches = 0 BY <2>1 DEF PaperAssumption
    <3>2. Counts(f[i]) BY <2>3, <2>4, <3>1 DEF Counts, Short, IsOpen, PaperAssumption
    <3> QED BY <2>1, <2>2, <2>6, <3>2 DEF Stands, Early
  <2> QED BY <2>5, <2>6
<1> QED BY <1>2, <1>3, <1>4, <1>5 DEF Sound, r

LEMMA Initially ==
  ASSUME PaperAssumption, Init
  PROVE  IInv
<1>1. file \in OldFiles /\ positions = Repaired(file) /\ tick = Between BY DEF Init
<1>2. file \in Seq(PaperPosition) BY <1>1 DEF PaperAssumption
<1>3. Sound(positions) /\ Sound(Repaired(file)) BY <1>1, OldSound
<1>4. FileBehind
  <2>1. Len(file) = Len(positions) /\ Len(file) \in Nat BY <1>1, <1>2, RepairedMints, LenProperties
  <2>2. \A i \in DOMAIN file : ~BadStop(file[i]) => positions[i] = file[i] BY <1>1 DEF Repaired
  <2>3. Agrees BY <2>1, <2>2 DEF Agrees
  <2>4. unread \in BOOLEAN BY DEF Init
  <2> QED BY <1>2, <2>3, <2>4, Zenon DEF FileBehind
<1>5. TickReads BY <1>1 DEF Between, TickReads
<1>6. Counters BY DEF Init, Counters
<1> QED BY <1>3, <1>4, <1>5, <1>6 DEF IInv

-----------------------------------------------------------------------------
(* What is written to the file at any time is a list memory agrees with.   *)
LEMMA Saved ==
  ASSUME IInv, file' = positions, unread' = FALSE, UNCHANGED positions
  PROVE  Sound(Repaired(file))' /\ FileBehind'
<1>1. positions \in Seq(PaperPosition) /\ \A i \in DOMAIN positions : ~BadStop(positions[i])
  BY DEF IInv, Sound, Stands
<1>2. Repaired(positions) = positions BY <1>1, RepairedAlready
<1>3. Repaired(file') = positions BY <1>2
<1>4. Sound(Repaired(file))'
  BY <1>3 DEF IInv, Sound, Stands, Counts, Short, IsOpen, BadStop, Early, Confirmed, Once, Limited
<1>5. Len(positions) \in Nat BY <1>1, LenProperties
<1>6. Agrees' BY <1>5 DEF Agrees
<1>7. file' \in Seq(PaperPosition) /\ unread' \in BOOLEAN BY <1>1
<1>8. FileBehind' BY <1>6, <1>7, Zenon DEF FileBehind
<1> QED BY <1>4, <1>8

(* A book that did not come from the file is sound as well.                *)
LEMMA EmptySound ==
  ASSUME PaperAssumption
  PROVE  Sound(<<>>)
<1>1. <<>> \in Seq(PaperPosition) /\ DOMAIN <<>> = {} BY EmptySeq
<1>2. Cardinality(OpenOnes(<<>>)) = 0 BY <1>1, FS_EmptySet DEF OpenOnes
<1>3. 0 <= MaxOpen BY DEF PaperAssumption
<1> QED BY <1>1, <1>2, <1>3 DEF Sound, Once, Limited

LEMMA NotSaved ==
  ASSUME IInv, UNCHANGED file
  PROVE  Sound(Repaired(file))'
<1>1. Repaired(file)' = Repaired(file) BY DEF Repaired, BadStop, Reopened
<1> QED BY <1>1 DEF IInv, Sound, Stands, Counts, Short, IsOpen, BadStop, Early, Confirmed, Once, Limited

LEMMA Unmoved ==
  ASSUME IInv, UNCHANGED positions, Save
  PROVE  Sound(positions)' /\ Sound(Repaired(file))' /\ FileBehind'
<1>1. Sound(positions)' BY DEF IInv, Sound, Stands, Counts, Short, IsOpen, BadStop, Early, Confirmed, Once, Limited
<1>2. CASE file' = positions /\ unread' = FALSE BY <1>1, <1>2, Saved
<1>3. CASE UNCHANGED <<file, unread>>
  <2>1. FileBehind' BY <1>3 DEF IInv, FileBehind, Agrees, IsOpen, BadStop
  <2> QED BY <1>1, <1>3, <2>1, NotSaved
<1> QED BY <1>2, <1>3 DEF Save

(* The list with one of its open positions valued.                         *)
LEMMA Replaced ==
  ASSUME PaperAssumption, IInv, NEW i \in DOMAIN positions, IsOpen(positions[i]), NEW p,
         Good(p), p.mint = positions[i].mint, positions' = [positions EXCEPT ![i] = p],
         UNCHANGED <<file, unread>>
  PROVE  Sound(positions)' /\ FileBehind'
<1>1. positions \in Seq(PaperPosition) /\ Len(positions) \in Nat /\ DOMAIN positions = 1..Len(positions)
      /\ p \in PaperPosition
  BY LenProperties DEF IInv, Sound, Good
<1>2. /\ positions' \in Seq(PaperPosition) /\ Len(positions') = Len(positions) /\ DOMAIN positions' = DOMAIN positions
      /\ \A j \in DOMAIN positions : positions'[j] = IF j = i THEN p ELSE positions[j]
  BY <1>1, ExceptSeq
<1>3. \A j \in DOMAIN positions' : Stands(j, positions'[j])
  BY <1>2 DEF IInv, Sound, Stands, Good
<1>4. Once(positions') BY <1>2 DEF IInv, Sound, Once
<1>5. Limited(positions')
  <2>1. OpenOnes(positions') \in SUBSET OpenOnes(positions) BY <1>2 DEF OpenOnes
  <2>2. /\ IsFiniteSet(OpenOnes(positions)) /\ Cardinality(OpenOnes(positions)) \in Nat
        /\ Cardinality(OpenOnes(positions')) \in Nat
    BY <1>1, <1>2, OpenOnesFinite
  <2>3. Cardinality(OpenOnes(positions')) <= Cardinality(OpenOnes(positions)) BY <2>1, <2>2, FS_Subset
  <2>4. Limited(positions) BY DEF IInv, Sound
  <2>5. \A f \in OldFiles : Cardinality(OpenOnes(Repaired(f))) \in Nat
    BY OldSound, OpenOnesFinite DEF Sound
  <2>6. \A k, m, n \in Nat : k <= m /\ m <= n => k <= n BY SMT
  <2>7. MaxOpen \in Nat BY DEF PaperAssumption
  <2> QED BY <2>2, <2>3, <2>4, <2>5, <2>6, <2>7, Zenon DEF Limited
<1>6. Sound(positions)'
  BY <1>2, <1>3, <1>4, <1>5 DEF Sound, Stands, Counts, Short, IsOpen, BadStop, Early, Confirmed, Once, Limited
<1>7. ASSUME ~unread PROVE Agrees'
  <2>1. /\ file \in Seq(PaperPosition) /\ Len(file) <= Len(positions) /\ Len(file) \in Nat
        /\ \A j \in DOMAIN file : IsOpen(file[j]) \/ BadStop(file[j]) \/ positions[j] = file[j]
    BY <1>7, LenProperties DEF IInv, FileBehind, Agrees
  <2>2. \A j \in DOMAIN file : j \in DOMAIN positions BY <1>1, <2>1, LenProperties
  <2>3. \A j \in DOMAIN file : IsOpen(file[j]) \/ BadStop(file[j]) \/ positions'[j] = file[j]
    <3> TAKE j \in DOMAIN file
    <3>1. CASE j = i BY <2>1, <3>1
    <3>2. CASE j # i BY <1>2, <2>1, <2>2, <3>2
    <3> QED BY <3>1, <3>2
  <2> QED BY <1>2, <2>1, <2>3 DEF Agrees, IsOpen, BadStop
<1>8. FileBehind' BY <1>7 DEF IInv, FileBehind
<1> QED BY <1>6, <1>8

(* The list with a position bought.                                        *)
LEMMA Added ==
  ASSUME PaperAssumption, IInv, NEW t \in Tokens, NEW now \in Nat, t \notin Seen(positions),
         Cardinality(OpenOnes(positions)) < MaxOpen,
         positions' = Append(positions, Bought(t, now)), UNCHANGED <<file, unread>>
  PROVE  Sound(positions)' /\ FileBehind' /\ Len(positions') = Len(positions) + 1
         /\ OpenOnes(positions') = OpenOnes(positions) \cup {Len(positions) + 1}
         /\ Seen(positions') = Seen(positions) \cup {t}
<1> DEFINE p == Bought(t, now)  n == Len(positions) + 1
<1>1. <<>> \in Seq(Priced) /\ <<>> \in Seq(Priced \cup {"none"}) BY EmptySeq
<1>2. /\ p \in PaperPosition /\ p.mint = t /\ p.exit = "open" /\ p.missedQuotes = 0 /\ p.breaches = 0
      /\ p.answers = <<>> /\ p.priced = <<>>
  BY <1>1 DEF Bought, PaperPosition
<1> HIDE DEF p
<1>3. positions \in Seq(PaperPosition) /\ Len(positions) \in Nat /\ DOMAIN positions = 1..Len(positions)
  BY LenProperties DEF IInv, Sound
<1>4. positions' = Append(positions, p) BY DEF p
<1>5. /\ positions' \in Seq(PaperPosition) /\ Len(positions') = n /\ positions'[n] = p
      /\ \A j \in 1..Len(positions) : positions'[j] = positions[j]
  BY <1>2, <1>3, <1>4, AppendProperties
<1>6. DOMAIN positions' = DOMAIN positions \cup {n} /\ n \notin DOMAIN positions
  <2>1. DOMAIN positions' = 1..n BY <1>5, LenProperties
  <2> QED BY <1>3, <2>1
<1>7. \A j \in DOMAIN positions : positions'[j] = positions[j] BY <1>3, <1>5
<1>8. OpenOnes(positions') = OpenOnes(positions) \cup {n} BY <1>2, <1>5, <1>6, <1>7 DEF OpenOnes, IsOpen
<1>9. Seen(positions') = Seen(positions) \cup {t} BY <1>2, <1>5, <1>6, <1>7 DEF Seen
<1> HIDE DEF n
<1>10. Stands(n, p)
  <2>1. Len(<<>>) = 0 /\ DOMAIN <<>> = {} BY EmptySeq
  <2>2. Ending(0, <<>>, {"none"}) /\ Ending(0, <<>>, Breaches) BY <2>1 DEF Ending
  <2> QED BY <1>2, <2>2 DEF Stands, Counts, Short, Confirmed, BadStop, Breaches, PaperAssumption
<1>11. \A j \in DOMAIN positions' : Stands(j, positions'[j])
  BY <1>5, <1>6, <1>7, <1>10 DEF IInv, Sound
<1>12. Once(positions')
  <2>1. \A j \in DOMAIN positions : positions[j].mint # t BY DEF Seen
  <2> QED BY <1>2, <1>5, <1>6, <1>7, <2>1 DEF IInv, Sound, Once
<1>13. Limited(positions')
  <2>1. IsFiniteSet(OpenOnes(positions)) /\ Cardinality(OpenOnes(positions)) \in Nat BY <1>3, OpenOnesFinite
  <2>2. n \notin OpenOnes(positions) BY <1>6 DEF OpenOnes
  <2>3. Cardinality(OpenOnes(positions')) = Cardinality(OpenOnes(positions)) + 1 BY <1>8, <2>1, <2>2, FS_AddElement
  <2>4. Cardinality(OpenOnes(positions')) <= MaxOpen BY <2>1, <2>3 DEF PaperAssumption
  <2> QED BY <2>4 DEF Limited
<1>14. Sound(positions)'
  BY <1>5, <1>11, <1>12, <1>13 DEF Sound, Stands, Counts, Short, IsOpen, BadStop, Early, Confirmed, Once, Limited
<1>15. ASSUME ~unread PROVE Agrees'
  <2>1. /\ file \in Seq(PaperPosition) /\ Len(file) <= Len(positions) /\ Len(file) \in Nat
        /\ \A j \in DOMAIN file : IsOpen(file[j]) \/ BadStop(file[j]) \/ positions[j] = file[j]
    BY <1>15, LenProperties DEF IInv, FileBehind, Agrees
  <2>2. \A j \in DOMAIN file : j \in DOMAIN positions BY <1>3, <2>1, LenProperties
  <2>3. Len(file) <= Len(positions') BY <1>3, <1>5, <2>1 DEF n
  <2> QED BY <1>7, <2>1, <2>2, <2>3 DEF Agrees, IsOpen, BadStop
<1>16. FileBehind' BY <1>15 DEF IInv, FileBehind
<1> QED BY <1>5, <1>8, <1>9, <1>14, <1>16 DEF n

-----------------------------------------------------------------------------
(* Steps that leave the lists alone.                                       *)
LEMMA BookStays ==
  ASSUME IInv, UNCHANGED book
  PROVE  Sound(positions)' /\ Sound(Repaired(file))' /\ FileBehind'
<1>1. positions' = positions /\ file' = file /\ unread' = unread BY DEF book
<1>2. Sound(Repaired(file))' BY <1>1, NotSaved
<1>3. Sound(positions)'
  BY <1>1 DEF IInv, Sound, Stands, Counts, Short, IsOpen, BadStop, Early, Confirmed, Once, Limited
<1>4. FileBehind' BY <1>1 DEF IInv, FileBehind, Agrees, IsOpen, BadStop
<1> QED BY <1>2, <1>3, <1>4

LEMMA StepKeeps ==
  ASSUME PaperAssumption, IInv, [Next]_vars
  PROVE  IInv'
<1>1. /\ tick \in [step : {"idle", "buy", "value"}, now : Nat, todo : SUBSET Tokens, open : SUBSET DOMAIN positions]
      /\ \A i \in tick.open : IsOpen(positions[i])
      /\ tick.step = "buy" => tick.open = OpenOnes(positions) /\ tick.todo \cap Seen(positions) = {}
      /\ stopped \in BOOLEAN /\ clock \in Nat /\ outages \in Nat /\ crashes \in Nat
  BY DEF IInv, TickReads, Counters
<1>2. CASE TickStart
  <2>1. UNCHANGED book /\ Counters' BY <1>1, <1>2 DEF TickStart, world, Counters
  <2>2. PICK active \in SUBSET Tokens :
          tick' = [step |-> "buy", now |-> clock, todo |-> active \ Seen(positions), open |-> OpenOnes(positions)]
    BY <1>2 DEF TickStart
  <2>3. OpenOnes(positions) \subseteq DOMAIN positions /\ \A i \in OpenOnes(positions) : IsOpen(positions[i])
    BY DEF OpenOnes
  <2>4. TickReads' BY <1>1, <2>1, <2>2, <2>3 DEF TickReads, book, OpenOnes, IsOpen, Seen
  <2> QED BY <2>1, <2>4, BookStays DEF IInv
<1>3. CASE \E t \in Tokens : BuyNothing(t) \/ BuyFails(t)
  <2>1. PICK t \in Tokens : BuyNothing(t) \/ BuyFails(t) BY <1>3
  <2>2. /\ UNCHANGED book /\ Counters' /\ tick' = [tick EXCEPT !.todo = @ \ {t}]
    BY <1>1, <2>1 DEF BuyNothing, BuyFails, Skipped, world, Counters
  <2>3. TickReads' BY <1>1, <2>2, SMTT(30) DEF TickReads, book, OpenOnes, IsOpen, Seen
  <2> QED BY <2>2, <2>3, BookStays DEF IInv
<1>4. ASSUME NEW t \in Tokens, Buy(t) PROVE IInv'
  <2>1. /\ tick.step = "buy" /\ t \in tick.todo /\ Cardinality(tick.open) < MaxOpen /\ tick.now \in Nat
        /\ positions' = Append(positions, Bought(t, tick.now)) /\ UNCHANGED <<file, unread>> /\ Counters'
        /\ tick' = [tick EXCEPT !.todo = @ \ {t}, !.open = @ \cup {Len(positions) + 1}]
    BY <1>1, <1>4 DEF Buy, Buying, Listed, world, Counters
  <2>2. t \notin Seen(positions) /\ tick.open = OpenOnes(positions) BY <1>1, <2>1
  <2>3. /\ Sound(positions)' /\ FileBehind' /\ Len(positions') = Len(positions) + 1
        /\ OpenOnes(positions') = OpenOnes(positions) \cup {Len(positions) + 1}
        /\ Seen(positions') = Seen(positions) \cup {t}
    BY <2>1, <2>2, Added
  <2>4. tick'.open = OpenOnes(positions') /\ tick'.todo = tick.todo \ {t} /\ tick'.step = "buy" /\ tick'.now = tick.now
    BY <1>1, <2>1, <2>2, <2>3
  <2>5. OpenOnes(positions') \subseteq DOMAIN positions' /\ \A i \in OpenOnes(positions') : IsOpen(positions'[i])
    BY DEF OpenOnes
  <2>6. tick' \in [step : {"idle", "buy", "value"}, now : Nat, todo : SUBSET Tokens, open : SUBSET DOMAIN positions']
    <3>1. tick' = [step |-> "buy", now |-> tick.now, todo |-> tick.todo \ {t}, open |-> OpenOnes(positions')]
      BY <1>1, <2>1, <2>2, <2>3
    <3> QED BY <1>1, <2>5, <3>1
  <2>7. tick'.todo \cap Seen(positions') = {} BY <1>1, <2>1, <2>3, <2>4
  <2>8. TickReads' BY <2>4, <2>5, <2>6, <2>7 DEF TickReads, OpenOnes, IsOpen, Seen
  <2> QED BY <2>1, <2>3, <2>8, NotSaved DEF IInv
<1>5. CASE Price
  <2>1. /\ UNCHANGED book /\ Counters'
        /\ \/ tick' = [tick EXCEPT !.step = "value", !.todo = {}]
           \/ tick' = [tick EXCEPT !.step = "value", !.todo = {}, !.open = {}]
    BY <1>1, <1>5 DEF Price, world, Counters
  <2>2. TickReads' BY <1>1, <2>1 DEF TickReads, book, IsOpen
  <2> QED BY <2>1, <2>2, BookStays DEF IInv
<1>6. CASE Value
  <2>1. PICK i \in tick.open :
          /\ \/ positions' = [positions EXCEPT ![i] = Missed(positions[i])]
             \/ \E a \in Priced : positions' = [positions EXCEPT ![i] = Valued(positions[i], a, tick.now)]
             \/ UNCHANGED positions
          /\ tick' = [tick EXCEPT !.open = @ \ {i}]
    BY <1>6 DEF Value
  <2>2. UNCHANGED <<file, unread>> /\ Counters' /\ tick.step = "value" BY <1>1, <1>6 DEF Value, world, Counters
  <2>3. i \in DOMAIN positions /\ IsOpen(positions[i]) BY <1>1
  <2>4. Good(positions[i])
    <3>1. Stands(i, positions[i]) BY <2>3 DEF IInv, Sound
    <3> QED BY <2>3, <3>1 DEF Stands, Good, Confirmed, IsOpen, Breaches
  <2>5. CASE UNCHANGED positions
    <3>1. TickReads' BY <1>1, <2>1, <2>2, <2>5 DEF TickReads, IsOpen
    <3> QED BY <2>2, <2>5, <3>1, BookStays DEF IInv, book
  <2>6. ASSUME NEW p, Good(p), p.mint = positions[i].mint, positions' = [positions EXCEPT ![i] = p] PROVE IInv'
    <3>1. Sound(positions)' /\ FileBehind' BY <2>2, <2>3, <2>6, Replaced
    <3>2. DOMAIN positions' = DOMAIN positions /\ \A j \in DOMAIN positions : j # i => positions'[j] = positions[j]
      BY <2>6
    <3>3. TickReads' BY <1>1, <2>1, <2>2, <3>2 DEF TickReads, IsOpen
    <3> QED BY <2>2, <3>1, <3>3, NotSaved DEF IInv
  <2>7. Good(Missed(positions[i])) /\ Missed(positions[i]).mint = positions[i].mint BY <2>3, <2>4, MissedGood
  <2>8. \A a \in Priced : Good(Valued(positions[i], a, tick.now))
                           /\ Valued(positions[i], a, tick.now).mint = positions[i].mint
    BY <2>3, <2>4, ValuedGood
  <2> QED BY <2>1, <2>5, <2>6, <2>7, <2>8
<1>7. CASE TickEnd
  <2>1. tick' = Between /\ UNCHANGED positions /\ Counters' /\ Save
    BY <1>1, <1>7 DEF TickEnd, Save, world, Counters
  <2>2. TickReads' BY <2>1 DEF Between, TickReads
  <2>3. Sound(positions)' /\ Sound(Repaired(file))' /\ FileBehind' BY <2>1, Unmoved
  <2> QED BY <2>1, <2>2, <2>3 DEF IInv
<1>8. CASE Stop
  <2>1. UNCHANGED <<positions, tick>> /\ Counters' /\ Save
    BY <1>1, <1>8 DEF Stop, Save, Counters
  <2>2. TickReads' BY <1>1, <2>1 DEF TickReads, OpenOnes, IsOpen, Seen
  <2>3. Sound(positions)' /\ Sound(Repaired(file))' /\ FileBehind' BY <2>1, Unmoved
  <2> QED BY <2>1, <2>2, <2>3 DEF IInv
<1>9. CASE Restart
  <2>1. Load /\ tick' = Between /\ UNCHANGED file BY <1>9 DEF Restart
  <2>2. Counters'
    <3>1. stopped' = FALSE /\ crashes' = crashes + 1 /\ clock' = clock BY <1>9 DEF Restart
    <3>2. outages' = outages \/ outages' = outages + 1 BY <2>1 DEF Load
    <3>3. crashes' \in Nat /\ clock' \in Nat /\ outages' \in Nat BY <1>1, <3>1, <3>2
    <3>4. stopped' \in BOOLEAN BY <3>1
    <3> QED BY <3>3, <3>4 DEF Counters
  <2>3. TickReads' BY <2>1 DEF Between, TickReads
  <2>4. Sound(Repaired(file))' BY <2>1, NotSaved
  <2>5. file \in Seq(PaperPosition) BY DEF IInv, FileBehind
  <2>6. CASE positions' = Repaired(file) /\ unread' = FALSE
    <3>1. Sound(positions)'
      <4>1. positions' = Repaired(file)' BY <2>1, <2>6 DEF Repaired, BadStop, Reopened
      <4> QED BY <2>4, <4>1 DEF Sound, Stands, Counts, Short, IsOpen, BadStop, Early, Confirmed, Once, Limited
    <3>2. Len(positions') = Len(file) /\ Len(file) \in Nat BY <2>5, <2>6, RepairedMints, LenProperties
    <3>3. \A i \in DOMAIN file : ~BadStop(file[i]) => positions'[i] = file[i] BY <2>6 DEF Repaired
    <3>4. Agrees' BY <2>1, <3>2, <3>3 DEF Agrees, IsOpen, BadStop
    <3>5. file' \in Seq(PaperPosition) /\ unread' \in BOOLEAN BY <2>1, <2>5, <2>6
    <3>6. FileBehind' BY <3>4, <3>5, Zenon DEF FileBehind
    <3> QED BY <2>2, <2>3, <2>4, <3>1, <3>6 DEF IInv
  <2>7. CASE positions' = <<>> /\ unread' = TRUE
    <3>1. Sound(positions)'
      <4>1. Sound(<<>>) BY EmptySound
      <4> QED BY <2>7, <4>1 DEF Sound, Stands, Counts, Short, IsOpen, BadStop, Early, Confirmed, Once, Limited
    <3>2. FileBehind' BY <2>1, <2>5, <2>7 DEF FileBehind
    <3> QED BY <2>2, <2>3, <2>4, <3>1, <3>2 DEF IInv
  <2> QED BY <2>1, <2>6, <2>7 DEF Load
<1>10. CASE Pass
  <2>1. UNCHANGED <<book, tick>> /\ Counters' BY <1>1, <1>10 DEF Pass, Counters
  <2>2. TickReads' BY <1>1, <2>1 DEF TickReads, book, OpenOnes, IsOpen, Seen
  <2> QED BY <2>1, <2>2, BookStays DEF IInv
<1>11. CASE UNCHANGED vars
  <2>1. UNCHANGED <<book, tick>> /\ Counters' BY <1>1, <1>11 DEF vars, book, Counters
  <2>2. TickReads' BY <1>1, <2>1 DEF TickReads, book, OpenOnes, IsOpen, Seen
  <2> QED BY <2>1, <2>2, BookStays DEF IInv
<1> QED BY <1>2, <1>3, <1>4, <1>5, <1>6, <1>7, <1>8, <1>9, <1>10, <1>11 DEF Next, Step

LEMMA Always == ASSUME PaperAssumption PROVE Spec => []IInv
<1>1. Init => IInv BY Initially
<1>2. IInv /\ [Next]_vars => IInv' BY StepKeeps
<1> QED BY <1>1, <1>2, PTL DEF Spec

(* Every variable keeps its type; an open position is one quote short of   *)
(* its exit at most, through restarts and repairs too.                     *)
THEOREM TypeCorrect == ASSUME PaperAssumption PROVE Spec => []TypeOK
<1>1. IInv => TypeOK BY IInvImplies
<1> QED BY <1>1, Always, PTL

(* tick(): no token is bought a second time.                               *)
THEOREM BoughtOnce == ASSUME PaperAssumption PROVE Spec => []OncePerToken
<1>1. IInv => OncePerToken BY IInvImplies
<1> QED BY <1>1, Always, PTL

(* tick(): MAX_OPEN holds, though it is checked on a list that was read    *)
(* before the awaits.                                                      *)
THEOREM LimitHolds == ASSUME PaperAssumption PROVE Spec => []OpenWithinLimit
<1>1. IInv => OpenWithinLimit BY IInvImplies
<1> QED BY <1>1, Always, PTL

(* tick(): no exit without the quotes in a row that its rule asks for.     *)
THEOREM ExitsAreConfirmed == ASSUME PaperAssumption PROVE Spec => []ExitsConfirmed
<1>1. IInv => ExitsConfirmed BY IInvImplies
<1> QED BY <1>1, Always, PTL

(* save(): a file that was read only ever replaces a result by the same    *)
(* result, since memory agrees with it on them.                            *)
THEOREM ResultsKept == ASSUME PaperAssumption PROVE Spec => ResultsStay
<1> DEFINE Kept == unread \/ \A i \in DOMAIN file :
             \/ IsOpen(file[i]) \/ (file[i].exit = "stop_loss" /\ file[i].worthless)
             \/ i \in DOMAIN file' /\ file'[i] = file[i]
<1>1. IInv /\ [Next]_vars => [Kept]_file
  <2> SUFFICES ASSUME IInv, [Next]_vars, file' # file, ~unread PROVE Kept
    OBVIOUS
  <2>1. file' = positions
    BY DEF Next, vars, Step, TickStart, BuyNothing, BuyFails, Buy, Price, Value, TickEnd, Stop, Save, Restart,
           Pass, book
  <2>2. /\ file \in Seq(PaperPosition) /\ Len(file) <= Len(positions) /\ Len(file) \in Nat /\ Len(positions) \in Nat
        /\ positions \in Seq(PaperPosition)
        /\ \A i \in DOMAIN file : IsOpen(file[i]) \/ BadStop(file[i]) \/ positions[i] = file[i]
    BY LenProperties DEF IInv, FileBehind, Agrees, Sound
  <2>3. \A i \in DOMAIN file : i \in DOMAIN positions BY <2>2, LenProperties
  <2> QED BY <2>1, <2>2, <2>3 DEF BadStop
<1> QED BY <1>1, Always, PTL DEF Spec, ResultsStay
=============================================================================
