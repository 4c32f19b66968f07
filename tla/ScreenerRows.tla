---------------------------- MODULE ScreenerRows ----------------------------
(***************************************************************************)
(* The rows of tradingview_snapshot_daily the API makes of a payload of    *)
(* the tv-collector.  A payload gives each screener's entries, a sequence  *)
(* of records without the keys TradingView has no value for: exchange,     *)
(* symbol, sector, prices in dollars, and the numbers MomentumEngine reads *)
(* in its units.                                                           *)
(***************************************************************************)
EXTENDS Integers, SequencesExt

MajorExchanges == {"NASDAQ", "NYSE", "AMEX", "NYSE ARCA", "BATS"}

\* The order in which the handler stores the screeners.
Sources == <<"market_leaders", "episodic_pivots", "momentum">>

\* The keys that are taken over as they are.
Copied == {"close", "volume", "rsi", "perf3m", "perf6m", "change", "gap", "relvol", "sma50", "sector"}

\* (close / high - 1) * 100
Distance52wHigh(entry) == (100 * entry.close) \div entry.high52w - 100

SnapshotRow(entry) ==
  LET derived == IF {"close", "high52w"} \subseteq DOMAIN entry /\ entry.high52w > 0
                 THEN {"dist"} ELSE {}
  IN  [f \in (Copied \cap DOMAIN entry) \cup derived |->
         IF f = "dist" THEN Distance52wHigh(entry) ELSE entry[f]]

\* The rows of one screener by ticker; of a ticker's entries the last one stays.
ExtractTVSnapshots(entries) ==
  LET accepted == {i \in DOMAIN entries :
                     {"exchange", "symbol"} \subseteq DOMAIN entries[i] /\ entries[i].exchange \in MajorExchanges}
      last(t) == Max({i \in accepted : entries[i].symbol = t})
  IN  [t \in {entries[i].symbol : i \in accepted} |-> SnapshotRow(entries[last(t)])]
=============================================================================
