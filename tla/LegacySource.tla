---------------------------- MODULE LegacySource -----------------------------
(* src/src/server/sources/dexscreener.ts: tokens found on two lists, priced *)
(* until they are 48 hours old, then labelled.  A source is the record      *)
(* [queue, tokens, backoff, stats]; a tick of its loop is one operator per  *)
(* stage, given the answers to the requests of the tick.                    *)
(* Times and spans are in any one unit.                                     *)
EXTENDS Integers, Sequences, FiniteSets
LOCAL INSTANCE SequencesExt
LOCAL INSTANCE FiniteSetsExt
LOCAL INSTANCE Functions

CONSTANTS
  Failed, Limited,      \* an answer that is an error, and HTTP 429
  Absent,               \* undefined, null and Infinity
  Unusable,             \* an image value that dexImageUrl turns down
  Batch,                \* BATCH
  Backoff,              \* 60 seconds
  MaxDiscoveryAge, LabelHours, EntryMc, TargetMc

Errors == {Failed, Limited}
Stats == [discovered |-> 0, tooOld |-> 0, belowEntry |-> 0, labelled |-> 0, errors |-> 0]
Fresh == [queue |-> <<>>, tokens |-> <<>>, backoff |-> 0, stats |-> Stats]

With(f, key, value) == [k \in DOMAIN f \cup {key} |-> IF k = key THEN value ELSE f[k]]
Without(f, key) == Restrict(f, DOMAIN f \ {key})
Count(s, stat) == [s EXCEPT !.stats[stat] = @ + 1]
Get(s, answer, now) == IF answer = Limited THEN [s EXCEPT !.backoff = now + Backoff] ELSE s
Logo(image) == IF image = Unusable THEN Absent ELSE image
FirstOf(x, y) == IF x # Absent THEN x ELSE y

(* Profiles, then boosts; one list may fail and the other be read.          *)
Noticed(s, profile, now) ==
  IF profile.key \in DOMAIN s.tokens \cup DOMAIN s.queue THEN s
  ELSE [s EXCEPT !.queue = With(@, profile.key, [icon |-> profile.icon, seenAt |-> now])]
Listed(s, list, now) == IF list \in Errors THEN s ELSE FoldLeft(LAMBDA r, p : Noticed(r, p, now), s, list)
Discover(s, lists, now) ==
  FoldLeft(LAMBDA r, list : Listed(r, list, now), FoldLeft(LAMBDA r, list : Get(r, list, now), s, lists), lists)

(* One token may have several pairs: the highest cap, the oldest pair.      *)
Earliest(created) == IF created \subseteq {Absent} THEN Absent ELSE Min(created \ {Absent})
Best(pairs, key) ==
  LET own == SelectSeq(pairs, LAMBDA p : p.key = key)
      images == SelectSeq(own, LAMBDA p : p.image # Absent) IN
  [mc |-> Max({0} \cup {p.mc : p \in ToSet(own)}),
   created |-> Earliest({p.created : p \in ToSet(own)}),
   image |-> IF images = <<>> THEN Absent ELSE images[1].image]

Repriced(s, key, b) ==
  [s EXCEPT !.tokens[key].peak = Max({@, b.mc}), !.tokens[key].logo = FirstOf(@, Logo(b.image))]
Admitted(s, key, b, now) ==
  LET q == s.queue[key] left == [s EXCEPT !.queue = Without(@, key)] IN
  IF b.created = Absent \/ now - b.created > MaxDiscoveryAge THEN Count(left, "tooOld")
  ELSE Count([left EXCEPT !.tokens = With(@, key,
         [status |-> "pending", peak |-> b.mc, launched |-> b.created, holders |-> 0, missing |-> TRUE,
          logo |-> FirstOf(Logo(q.icon), Logo(b.image))])], "discovered")
Priced(s, key, pairs, now) ==
  IF key \in DOMAIN s.tokens THEN Repriced(s, key, Best(pairs, key))
  ELSE IF key \in DOMAIN s.queue THEN Admitted(s, key, Best(pairs, key), now)
  ELSE s
BatchPriced(s, chunk, pairs, now) ==
  FoldLeft(LAMBDA r, key : IF \E p \in ToSet(pairs) : p.key = key THEN Priced(r, key, pairs, now) ELSE r, s, chunk)

Pending(s) == {k \in DOMAIN s.tokens : s.tokens[k].status = "pending"}
Watch(s) == SetToSeq(DOMAIN s.queue) \o SetToSeq(Pending(s))
Batches(watch) == [i \in 1..(Len(watch) + Batch - 1) \div Batch |->
                     SubSeq(watch, (i - 1) * Batch + 1, Min({i * Batch, Len(watch)}))]
Expired(s, now) == [s EXCEPT !.queue = Restrict(@, {k \in DOMAIN @ : now - @[k].seenAt <= MaxDiscoveryAge})]

(* A failed batch throws: those before it stay, those after are not asked.  *)
(* answers has what each batch is answered, by its first token.              *)
Price(s, answers, now) ==
  LET batches == Batches(Watch(s))
      asked[i \in 0..Len(batches)] ==
        IF i = 0 THEN [s |-> s, thrown |-> FALSE]
        ELSE LET r == asked[i - 1] answer == answers[Head(batches[i])] IN
             IF r.thrown THEN r
             ELSE IF answer \in Errors THEN [s |-> Get(r.s, answer, now), thrown |-> TRUE]
             ELSE [r EXCEPT !.s = BatchPriced(@, batches[i], answer, now)]
      last == asked[Len(batches)] IN
  IF last.thrown THEN last ELSE [last EXCEPT !.s = Expired(@, now)]

(* The label, once: an explorer that fails leaves the count missing.        *)
SampleHolders(answer) == IF answer \in Errors THEN Absent ELSE answer
Labelled(s, key, answer) ==
  LET token == s.tokens[key] holders == SampleHolders(answer) IN
  IF token.peak < EntryMc THEN Count([s EXCEPT !.tokens = Without(@, key)], "belowEntry")
  ELSE Count([s EXCEPT !.tokens[key] =
         [token EXCEPT !.status = IF token.peak >= TargetMc THEN "passed" ELSE "stalled",
                   !.holders = IF holders = Absent THEN 0 ELSE holders, !.missing = holders = Absent]], "labelled")
Due(s, now) == {k \in Pending(s) : now - s.tokens[k].launched >= LabelHours}
Label(s, answer, now) == FoldLeft(LAMBDA r, key : Labelled(r, key, answer), s, SetToSeq(Due(s, now)))

(* A tick: nothing while backing off; an error in a stage ends it.  A list  *)
(* that was limited is no error: the tick goes on to price and to label.    *)
Tick(s, lists, answers, holders, now) ==
  IF now < s.backoff THEN s
  ELSE LET priced == Price(Discover(s, lists, now), answers, now) IN
       IF priced.thrown THEN Count(priced.s, "errors") ELSE Label(priced.s, holders, now)
=============================================================================
