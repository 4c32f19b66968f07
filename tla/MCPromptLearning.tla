-------------------------- MODULE MCPromptLearning --------------------------
(* AAA is recommended with valid levels in both answers of the model; BBB is *)
(* rejected, or recommended with too little reward.  On a day AAA drifts,    *)
(* reaches its second target, or touches its stop and both targets; BBB      *)
(* drifts or is halted.                                                      *)
EXTENDS PromptLearning

Drift == [open |-> 10, low |-> 9, high |-> 12, close |-> 11]
Rally == [open |-> 12, low |-> 11, high |-> 20, close |-> 19, adjusted |-> 18]
Swing == [open |-> 10, low |-> 8, high |-> 21, close |-> 9]
MCMarkets == {[AAA |-> Drift, BBB |-> Drift], [AAA |-> Rally], [AAA |-> Swing, BBB |-> Drift]}

Full == [low |-> 10, high |-> 10, stop |-> 8, t1 |-> 16, t2 |-> 20, setup |-> "MOMENTUM", conviction |-> "HIGH"]
Single == [low |-> 10, high |-> 11, stop |-> 8, t1 |-> 16, setup |-> "EP_TIER1", conviction |-> "STARTER"]
Poor == [low |-> 10, high |-> 11, stop |-> 8, t1 |-> 16, setup |-> "VCP"]
MCAnswers == {
  [version |-> "v1", input |-> {"AAA", "BBB"}, success |-> TRUE, picks |-> [AAA |-> Full]],
  [version |-> "v2", input |-> {"AAA", "BBB"}, success |-> TRUE, picks |-> [AAA |-> Single, BBB |-> Poor]],
  [version |-> "v2", input |-> {"AAA"}, success |-> FALSE, picks |-> <<>>]}
=============================================================================
