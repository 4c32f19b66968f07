-------------------------- MODULE MCTradeOutcomes --------------------------
(***************************************************************************)
(* TradeOutcomes for one ticker on one or two lists.  The windows are      *)
(* smaller than the horizon, or the observation window as long as it.      *)
(***************************************************************************)
EXTENDS TradeOutcomes

\* ORDER BY list_type, and leaders > momentum > ep.
TwoVisited == [ep |-> 1, leaders |-> 2]
TwoConviction == [ep |-> 2, leaders |-> 1]
OneVisited == [leaders |-> 1]
OneConviction == [leaders |-> 1]
=============================================================================
