------------------------------- MODULE LivePage -------------------------------
(***************************************************************************)
(* The page's copy of the study: client/live.ts, store/useStore.ts, the    *)
(* proof panel's hooks/useProof.ts, and the routes they read (api/state,   *)
(* api/stream, api/ideas/current, api/bootstrap).                          *)
(*                                                                         *)
(* The server announces token updates and retrained models on a stream    *)
(* that drops and reconnects, losing what was on the way; the page polls   *)
(* /api/state beside it and asks for the ideas when a model is announced.  *)
(* Answers of fetches arrive in any order.                                 *)
(*                                                                         *)
(* rows counts each token's updates: two counters are equal when they were *)
(* computed from equal rows.  A model is its run, and Mirrored gives what  *)
(* the proof panel copies of it.                                           *)
(***************************************************************************)
EXTENDS Naturals, Sequences, FiniteSets

CONSTANTS
  Tokens,
  Polls, Asks,     \* fetches of /api/state and of the ideas in flight at once
  Mirrored(_),     \* n, nPos and auc of the model of a run
  Settings,        \* what n, nPos and auc are moved to by hand
  FirstReady,      \* first run with at least 20 rows: earlier ones are not mirrored
  FeedCap,
  MaxEvents,       \* bound: events of the world (updates, runs, drops, failures, moves)
  MaxWire          \* bound: messages on the stream

ASSUME PageAssumption ==
  /\ IsFiniteSet(Tokens) /\ FirstReady \in Nat /\ FeedCap \in Nat \ {0}
  /\ MaxEvents \in Nat /\ MaxWire \in Nat

VARIABLES
  rows, run,                           \* server: the tokens' updates, the last run
  open, wire,                          \* the stream
  polls, ideaAsks,                     \* fetches in flight
  feed, counters, model, connected,    \* the store: live data
  ideas, failed,                       \* the cycle shown, and whether an error stands beside it
  sim, mounted, boots,                 \* proof panel: sliders, whether it is on the page, its fetches
  events,
  due                                  \* history: a model announced, whose ideas are not here yet

server == <<rows, run>>
stream == <<open, wire>>
fetches == <<polls, ideaAsks>>
store == <<feed, counters, model, connected>>
panel == <<sim, mounted, boots>>
vars == <<server, stream, fetches, store, ideas, failed, panel, events, due>>

None == "none"
Blank == [t \in Tokens |-> 0]
Shown(all) == {t \in Tokens : all[t] > 0}

(* The initial feed: every token seen, in the order of their launches.     *)
Listings(all) ==
  {s \in [1..Cardinality(Shown(all)) -> [token : Shown(all), seen : Nat \cap {all[t] : t \in Tokens}]] :
     /\ \A i, j \in DOMAIN s : s[i].token = s[j].token => i = j
     /\ \A i \in DOMAIN s : s[i].seen = all[s[i].token]}
Capped(s) == SubSeq(s, 1, IF Len(s) < FeedCap THEN Len(s) ELSE FeedCap)

(* A fetch is idle, asked or answered with what the route read.            *)
StatePoll(withFeed) == [step |-> "asked", feed |-> withFeed, rows |-> Blank, run |-> 0]
NoPoll == [StatePoll(FALSE) EXCEPT !.step = "idle"]
IdeasAsk == [step |-> "asked", run |-> 0]
NoAsk == [IdeasAsk EXCEPT !.step = "idle"]
First(slots) == CHOOSE i \in slots : TRUE

Init ==
  /\ rows = Blank /\ run = 0 /\ open = FALSE /\ wire = <<>>
  /\ polls = [p \in Polls |-> IF p = First(Polls) THEN StatePoll(TRUE) ELSE NoPoll]
  /\ ideaAsks = [k \in Asks |-> IF k = First(Asks) THEN IdeasAsk ELSE NoAsk]
  /\ feed = <<>> /\ counters = Blank /\ model = 0 /\ connected = FALSE
  /\ ideas = 0 /\ failed = FALSE
  /\ sim \in [at : Settings, touched : {FALSE}, boot : {None}]
  /\ mounted = FALSE /\ boots = {} /\ events = 0 /\ due = 0

(* What the server counts, and what the page shows of it: the counters of  *)
(* two moments differ only if a token's row does.                          *)
Counted == rows
ApplyCounters(all) == counters' = all

Event == events < MaxEvents /\ events' = events + 1

-----------------------------------------------------------------------------
(* The server. *)
Send(m) == IF open THEN Append(wire, m) ELSE wire

(* upsert with announce, and the updates nobody announces.                 *)
Update(t, announce) ==
  /\ Event /\ rows' = [rows EXCEPT ![t] = @ + 1]
  /\ announce => Len(wire) < MaxWire
  /\ wire' = IF announce THEN Send([kind |-> "token", token |-> t, rows |-> Counted', run |-> 0]) ELSE wire
  /\ UNCHANGED <<run, open, fetches, store, ideas, failed, panel, due>>

(* runCycle publishes the idea cycle before it announces the model.        *)
RunCycle ==
  /\ Event /\ Len(wire) < MaxWire /\ run' = run + 1
  /\ wire' = Send([kind |-> "model", token |-> None, rows |-> Counted, run |-> run'])
  /\ UNCHANGED <<rows, open, fetches, store, ideas, failed, panel, due>>

(* The routes answer from the state of that moment.                        *)
AnswerPoll(p) ==
  /\ polls[p].step = "asked"
  /\ polls' = [polls EXCEPT ![p] = [@ EXCEPT !.step = "answered", !.rows = Counted, !.run = run]]
  /\ UNCHANGED <<server, stream, ideaAsks, store, ideas, failed, panel, events, due>>
AnswerAsk(k) ==
  /\ ideaAsks[k].step = "asked"
  /\ ideaAsks' = [ideaAsks EXCEPT ![k] = [step |-> "answered", run |-> run]]
  /\ UNCHANGED <<server, stream, polls, store, ideas, failed, panel, events, due>>

-----------------------------------------------------------------------------
(* The proof panel.  A slider, a preset or a mirrored model clears the     *)
(* bootstrap floor; the effect of useSimProof runs again when one of its   *)
(* dependencies has changed: it disowns its fetch, and asks anew after a   *)
(* pause if the floor is missing.                                          *)
Fetch(at) == [at |-> at, step |-> "timer", alive |-> TRUE]
KeptAlive(bs) == {c \in bs : c.step = "asked"}   \* mutant
Disowned(bs) == {[b EXCEPT !.alive = FALSE] : b \in {c \in bs : c.step = "asked"}}
Effect(new, on) ==
  Disowned(boots) \cup (IF on /\ new.boot = None THEN {Fetch(new.at)} ELSE {})
Rendered(new) ==
  IF ~mounted \/ (new.at = sim.at /\ new.boot = sim.boot) THEN boots ELSE Effect(new, TRUE)

SetSim(new) == sim' = new /\ boots' = Rendered(new) /\ UNCHANGED mounted
Mirror(r) ==       \* setModel: until someone moves a slider
  IF r = 0 \/ r < FirstReady \/ sim.touched THEN UNCHANGED panel
  ELSE SetSim([at |-> Mirrored(r), touched |-> FALSE, boot |-> None])

Slide(at) ==       \* setSim, applyPreset
  /\ Event /\ SetSim([at |-> at, touched |-> TRUE, boot |-> None])
  /\ UNCHANGED <<server, stream, fetches, store, ideas, failed, due>>
Synced ==          \* without a model n becomes the number of tokens, if there are any
  IF model > 0 THEN {Mirrored(model)} ELSE {sim.at} \cup IF counters = Blank THEN {} ELSE Settings
SyncSim ==         \* syncSimWithModel
  /\ Event
  /\ \E at \in Synced : SetSim([at |-> at, touched |-> TRUE, boot |-> None])
  /\ UNCHANGED <<server, stream, fetches, store, ideas, failed, due>>
Navigate ==        \* the panel comes with its page, and goes with it
  /\ Event /\ mounted' = ~mounted
  /\ boots' = Effect(sim, ~mounted)
  /\ UNCHANGED <<server, stream, fetches, store, ideas, failed, sim, due>>

AskBoot(b) ==      \* the pause is over
  /\ b.step = "timer" /\ boots' = (boots \ {b}) \cup {[b EXCEPT !.step = "asked"]}
  /\ UNCHANGED <<server, stream, fetches, store, ideas, failed, sim, mounted, events, due>>
BootArrives(b) ==
  /\ b.step = "asked"
  /\ LET left == boots \ {b} IN
     IF b.alive
     THEN /\ sim' = [sim EXCEPT !.boot = b.at]
          /\ boots' = {c \in left : c.step = "asked"}   \* the effect's cleanup: nothing is missing now
     ELSE sim' = sim /\ boots' = left
  /\ UNCHANGED <<server, stream, fetches, store, ideas, failed, mounted, events, due>>
BootFails(b) ==    \* nobody asks again
  /\ Event /\ b.step = "asked" /\ boots' = boots \ {b}
  /\ UNCHANGED <<server, stream, fetches, store, ideas, failed, sim, mounted, due>>

-----------------------------------------------------------------------------
(* refreshState *)
NotPolled(fs) == {fs}   \* mutant of Polled: no poll after the first
Polled(fs) == {[fs EXCEPT ![p] = StatePoll(FALSE)] : p \in {q \in Polls : fs[q].step = "idle"}}
PollAgain ==       \* every 30 s
  /\ polls' \in Polled(polls)
  /\ UNCHANGED <<server, stream, ideaAsks, store, ideas, failed, panel, events, due>>
PollArrives(p) ==
  /\ polls[p].step = "answered" /\ polls' = [polls EXCEPT ![p] = NoPoll]
  /\ ApplyCounters(polls[p].rows) /\ model' = polls[p].run /\ Mirror(polls[p].run)
  /\ IF polls[p].feed THEN \E s \in Listings(polls[p].rows) : feed' = Capped(s) ELSE feed' = feed
  /\ UNCHANGED <<server, stream, ideaAsks, connected, ideas, failed, events, due>>
PollFails(p) ==
  /\ Event /\ polls[p].step # "idle" /\ polls' = [polls EXCEPT ![p] = NoPoll] /\ connected' = FALSE
  /\ UNCHANGED <<server, stream, ideaAsks, feed, counters, model, ideas, failed, panel, due>>

(* refreshIdeas: a cycle replaces the one shown, anything else puts an     *)
(* error beside it.                                                        *)
NotAsked(fs) == {fs}   \* mutant
Asked(fs) == {[fs EXCEPT ![k] = IdeasAsk] : k \in {i \in Asks : fs[i].step = "idle"}}
AskArrives(k) ==
  /\ ideaAsks[k].step = "answered" /\ ideaAsks' = [ideaAsks EXCEPT ![k] = NoAsk]
  /\ IF ideaAsks[k].run > 0 THEN ideas' = ideaAsks[k].run /\ failed' = FALSE
     ELSE ideas' = ideas /\ failed' = TRUE
  /\ due' = IF failed' \/ ideas' >= due THEN 0 ELSE due
  /\ UNCHANGED <<server, stream, polls, store, panel, events>>
AskFails(k) ==
  /\ Event /\ ideaAsks[k].step # "idle" /\ ideaAsks' = [ideaAsks EXCEPT ![k] = NoAsk]
  /\ failed' = TRUE /\ due' = 0
  /\ UNCHANGED <<server, stream, polls, store, ideas, panel>>

Row(t, all) == [token |-> t, seen |-> all[t]]   \* mapToken

(* connect: the EventSource and its handlers.                              *)
Open ==
  /\ ~open /\ open' = TRUE /\ connected' = TRUE
  /\ UNCHANGED <<server, wire, fetches, feed, counters, model, ideas, failed, panel, events, due>>
Drop ==
  /\ Event /\ open /\ open' = FALSE /\ wire' = <<>> /\ connected' = FALSE
  /\ UNCHANGED <<server, fetches, feed, counters, model, ideas, failed, panel, due>>

OnToken(hidden) ==
  LET m == Head(wire) IN
  /\ wire # <<>> /\ m.kind = "token" /\ wire' = Tail(wire)
  /\ feed' = IF hidden THEN feed ELSE Capped(<<Row(m.token, m.rows)>> \o SelectSeq(feed, LAMBDA x : x.token # m.token))
  /\ ApplyCounters(m.rows)
  /\ UNCHANGED <<server, open, fetches, model, connected, ideas, failed, panel, events, due>>
OnModel ==
  LET m == Head(wire) IN
  /\ wire # <<>> /\ m.kind = "model" /\ wire' = Tail(wire)
  /\ ApplyCounters(m.rows) /\ model' = m.run /\ Mirror(m.run) /\ due' = m.run
  /\ ideaAsks' \in Asked(ideaAsks) /\ polls' \in Polled(polls)
  /\ UNCHANGED <<server, open, feed, connected, ideas, failed, events>>

-----------------------------------------------------------------------------
Deliver == OnModel \/ \E hidden \in BOOLEAN : OnToken(hidden)
PollStep(p) == AnswerPoll(p) \/ PollArrives(p)
AskStep(k) == AnswerAsk(k) \/ AskArrives(k)
User == SyncSim \/ Navigate \/ \E at \in Settings : Slide(at)

Next ==
  \/ \E t \in Tokens, announce \in BOOLEAN : Update(t, announce)
  \/ RunCycle \/ User \/ Open \/ Drop \/ Deliver \/ PollAgain
  \/ \E b \in boots : AskBoot(b) \/ BootArrives(b) \/ BootFails(b)
  \/ \E p \in Polls : PollStep(p) \/ PollFails(p)
  \/ \E k \in Asks : AskStep(k) \/ AskFails(k)

Spec == Init /\ [][Next]_vars

(* Timers fire, routes answer, answers and messages arrive, and the        *)
(* EventSource reconnects.                                                 *)
Fairness ==
  /\ WF_vars(PollAgain) /\ WF_vars(Deliver) /\ WF_vars(Open)
  /\ \A p \in Polls : WF_vars(PollStep(p))
  /\ \A k \in Asks : WF_vars(AskStep(k))
FairSpec == Spec /\ Fairness

-----------------------------------------------------------------------------
(* The floor the proof panel shows was bootstrapped for the sliders as     *)
(* they stand: an answer for earlier ones is disowned (useSimProof,        *)
(* setSim, setModel).                                                      *)
BootLowerFits == sim.boot # None => sim.boot = sim.at

(* Whatever the stream lost and whatever order the answers came in, the    *)
(* page ends up with the server's counters and model (refreshState,        *)
(* connect, applyCounters).                                                *)
NumbersConverge == <>[](counters = rows /\ model = run)

(* A model announced to the page is followed by its ideas, or by an error  *)
(* beside the ones shown (onmessage, refreshIdeas, runCycle).  They need   *)
(* not stay: an older answer still under way replaces them.                *)
IdeasFollow == []<>(due = 0)
=============================================================================
