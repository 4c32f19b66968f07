--------------------------- MODULE ExitSimulator ---------------------------
(***************************************************************************)
(* What a recommended trade would have come to: ValidateLevels and         *)
(* ReplayExitSequence of the outcomes package.                             *)
(*                                                                         *)
(* The levels of a recommendation are a record without the fields that are *)
(* null: the entry zone low and high, stop, the targets t1 and t2, setup   *)
(* and conviction, prices in whole dollars.  The candles of a ticker are a *)
(* function from the days that have one to [open, low, high, close] and    *)
(* adjusted, the adjusted close if it is not null.  Days are trading days. *)
(***************************************************************************)
EXTENDS Integers, FiniteSets, FiniteSetsExt

CONSTANT MaxExitDays  \* sessions of the simulation (20)

ASSUME ExitAssumption == MaxExitDays \in Nat \ {0}

\* The first n days of a set.
FirstDays(days, n) == {d \in days : Cardinality({e \in days : e < d}) < n}

\* The least reward for a unit of risk, in tenths.
RiskRewardFloor(setup) ==
  CASE setup \in {"EP_TIER1", "EP_TIER2"} -> 25
    [] setup \in {"LEADERS", "MOMENTUM", "VCP", "TIGHT_BASE"} -> 30
    [] OTHER -> -1

ValidateLevels(l) ==
  /\ l.stop < l.low
  /\ "t1" \in DOMAIN l /\ l.t1 > l.high
  /\ "t2" \in DOMAIN l /\ l.t2 > 0 => l.t2 > l.t1
  /\ RiskRewardFloor(l.setup) >= 0
       => 10 * (l.t1 - l.high) >= RiskRewardFloor(l.setup) * (l.low - l.stop)

-----------------------------------------------------------------------------

\* Mutant: the last MaxExitDays of the sessions.
LastSessions(candles, entryDate) ==
  LET days == {d \in DOMAIN candles : d >= entryDate}
  IN  {d \in days : Cardinality({e \in days : e > d}) < MaxExitDays}

\* The sessions of the simulation, the entry date's own first.
Sessions(candles, entryDate) ==
  FirstDays({d \in DOMAIN candles : d >= entryDate}, MaxExitDays)

ExitClose(candle) == IF "adjusted" \in DOMAIN candle THEN candle.adjusted ELSE candle.close

Target2(l) == IF "t2" \in DOMAIN l THEN l.t2 ELSE 0

\* Mutant: the target is looked at before the stop.
ReplaySessionTargetFirst(candles, l, result, d) ==
  LET reached == result.t1Hit \/ candles[d].high >= l.t1
  IN  CASE result.type # "time" -> result
        [] result.type = "time" /\ Target2(l) > 0 /\ candles[d].high >= Target2(l) ->
             [type |-> "target_2", price |-> Target2(l), day |-> d, t1Hit |-> reached]
        [] OTHER ->
             IF candles[d].low <= l.stop
             THEN [type |-> "stop", price |-> l.stop, day |-> d, t1Hit |-> reached]
             ELSE [result EXCEPT !.t1Hit = reached]

\* One session.  The loop ends at the first exit; the stop comes before the
\* targets, the first target is only noted.
ReplaySession(candles, l, result, d) ==
  LET reached == result.t1Hit \/ candles[d].high >= l.t1
  IN  CASE result.type # "time" -> result
        [] result.type = "time" /\ candles[d].low <= l.stop ->
             [type |-> "stop", price |-> l.stop, day |-> d, t1Hit |-> reached]
        [] OTHER ->
             IF Target2(l) > 0 /\ candles[d].high >= Target2(l)
             THEN [type |-> "target_2", price |-> Target2(l), day |-> d, t1Hit |-> reached]
             ELSE [result EXCEPT !.t1Hit = reached]

\* (exit - entry) and (entry - stop), both doubled, for an entry in the middle
\* of the zone; 0 / 1 without risk.
ActualRR(l, price) ==
  LET risk == l.low + l.high - 2 * l.stop
  IN  IF risk # 0 THEN <<2 * price - l.low - l.high, risk>> ELSE <<0, 1>>

\* After[n]: the result of the sessions among the first n days.
Replay(candles, entryDate, l) ==
  LET sessions == Sessions(candles, entryDate)
      After[n \in 0 .. 2 * MaxExitDays + 1] ==
        IF n = 0 THEN [type |-> "time", price |-> 0, day |-> 0, t1Hit |-> FALSE]
        ELSE LET d == entryDate + n - 1
             IN  IF d \in sessions THEN ReplaySession(candles, l, After[n - 1], d) ELSE After[n - 1]
  IN  After

\* The candles given are those of 2 * MaxExitDays days.  Without a stop or a
\* second target the trade ends at the close of the last session there is.  No
\* session at all is a time exit at 0.
ReplayExitSequence(candles, entryDate, l) ==
  LET sessions == Sessions(candles, entryDate)
      replayed == Replay(candles, entryDate, l)[2 * MaxExitDays + 1]
      last == Max(sessions)
      timedOut == replayed.type = "time" /\ sessions # {}
      price == IF timedOut THEN ExitClose(candles[last]) ELSE replayed.price
  IN  [type |-> replayed.type, price |-> price, day |-> IF timedOut THEN last ELSE replayed.day,
       t1Hit |-> replayed.t1Hit,
       rr |-> IF sessions = {} THEN <<0, 1>> ELSE ActualRR(l, price)]
============================================================================
