------------------------------- MODULE MCLoop -------------------------------
(* Two prices 52 bins apart, and the owner's range within the least         *)
(* tolerance of the one and the oversold hold of the other.  Weathers in    *)
(* which the entry is wide, none or narrow: a fall with an oversold market, *)
(* too few candles for the channel, a failed analysis of the timeframes.    *)
EXTENDS MarketLoop

MCActiveBins == {1000, 1052}
MCOwnersRange == [lo |-> 1010, hi |-> 1022]
MCRangeAtItsEnd == [lo |-> 1000, hi |-> 1012]

Weather(channel, frames, t5, t1, t4, rsi1, rsi4, hourAtr, dayAtr, width, slope, place) ==
  [channel |-> channel, frames |-> frames, t5 |-> t5, t1 |-> t1, t4 |-> t4, rsi1 |-> rsi1,
   rsi4 |-> rsi4, hourAtr |-> hourAtr, dayAtr |-> dayAtr, width |-> width, slope |-> slope,
   place |-> place, volatility |-> 3]

MCWeathers == {
  Weather(TRUE, TRUE, "none", "BEAR", "BEAR", 25, 25, 20, 60, 20, 120, 10),
  Weather(FALSE, TRUE, "BULL", "NEUTRAL", "none", 50, 0, 10, 0, 0, 0, 0),
  Weather(TRUE, FALSE, "none", "none", "none", 0, 0, 0, 0, 16, 20, 50) }
=============================================================================
