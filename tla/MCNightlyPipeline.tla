------------------------- MODULE MCNightlyPipeline -------------------------
(* NightlyPipeline with two tickers in the ingestion.                      *)
EXTENDS NightlyPipeline
CONSTANTS t1, t2
=============================================================================
