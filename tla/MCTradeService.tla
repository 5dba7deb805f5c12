---------------------------- MODULE MCTradeService ----------------------------
(* TradeService for TLC: three tokens, of which two may be namesakes.      *)
EXTENDS TradeService, FeedChecks

CONSTANTS t, u, w, v

ThreeTokens == {t, u, w}
OneVisitor == {v}
ThreeByScore == <<t, u, w>>
Names == {"cat", "dog"}
CatsOrNot == {[x \in Tokens |-> CASE x = t -> "cat" [] x = u -> n [] x = w -> "bird"] : n \in Names}

(* A scene is one of two: a visitor, and all tokens but the last, which    *)
(* stays unfit; or all tokens, which only the timer asks about.            *)
VARIABLE scene
Scene(visitors, tokens) == [visitors |-> visitors, tokens |-> tokens]
InitScene ==
  /\ Init
  /\ scene \in {Scene(Visitors, Tokens \ {w}), Scene({}, Tokens)}
  /\ \A k \in Tokens \ scene.tokens : status[k] = "unfit"
Budget == IF scene.visitors = {} THEN 1 ELSE MaxErrors + MaxChanges   \* bound
(* The actions of Next, by the visitors and tokens of the scene.           *)
NextScene ==
  /\ \/ /\ Change \/ Check \/ \E k \in scene.visitors : Visit(k)
        /\ Remember(FALSE)
     \/ Tick /\ Remember(TRUE)
  /\ errors' + changes' <= Budget
  /\ \A k \in Tokens \ scene.tokens :
       status'[k] = "unfit" /\ \A j \in Visitors : request'[j].token # k
  /\ UNCHANGED scene
FairScene ==
  /\ InitScene /\ [][NextScene]_<<vars, scene>>
  /\ WF_checker(Tick) /\ WF_checker(Check)
  /\ \A k \in Visitors : WF_request(Reply(k))
=============================================================================
