----------------------------- MODULE MarketView -----------------------------
(***************************************************************************)
(* What the bot makes of the market: the Keltner channel of the 5-minute   *)
(* candles (KeltnerAnalyzer), the regime of three timeframes (MTFAnalyzer),*)
(* and the numbers of bins both lead to.  A weather is what the candles    *)
(* show: the trend of each timeframe, "none" where it has fewer than 20    *)
(* candles, and the indicators.  The channel takes 50 candles of its own   *)
(* (channel), and the analysis of the timeframes may fail as a whole       *)
(* (frames): each of them can be lost without the others.                  *)
(*                                                                         *)
(* Widths and ATRs are tenths of a percent, scores, RSIs and the place in  *)
(* the channel percents, slopes 0.00001 of the price per candle.           *)
(***************************************************************************)
EXTENDS BinRange, Sequences

Magnitude(n) == IF n < 0 THEN -n ELSE n

-----------------------------------------------------------------------------
\* KELTNER_CONFIGS[BALANCED]
TargetWidth == 30
MaxWidth == 50
MinQuality == 60

\* _score_channel_width
WidthScore(width) ==
  CASE width < 10 -> 10 * width
    [] width \in 10..TargetWidth -> 100
    [] width > TargetWidth /\ width <= MaxWidth -> 100 - (70 * (width - TargetWidth)) \div (MaxWidth - TargetWidth)
    [] width > MaxWidth -> Larger(0, 30 - (width - MaxWidth))

\* _assess_channel_quality
Ranging(w) == Magnitude(w.slope) < 100
Quality(w) ==
  LET stability == Clamp(0, 100, 100 - (100 * w.volatility) \div 15)
      position  == Clamp(0, 100, 100 - 2 * Magnitude(w.place - 50))
      trend     == Larger(0, 100 - Magnitude(w.slope))
  IN  (3 * stability + 3 * WidthScore(w.width) + 2 * position + 2 * trend) \div 10

\* _generate_recommendation: the confidence, 0 when it says to wait
Confidence(w) ==
  IF Quality(w) >= MinQuality /\ w.width \in 10..MaxWidth /\ Ranging(w) /\ w.place \in 20..80
  THEN Quality(w)
  ELSE IF Quality(w) >= 50 /\ w.width <= MaxWidth THEN (7 * Quality(w)) \div 10 ELSE 0

\* _get_default_analysis, for want of candles: ten percent wide, and ranging
DefaultChannel == [width |-> 100, ranging |-> TRUE, confidence |-> 0]

\* analyze_channel_conditions
Channel(w) ==
  IF ~w.channel THEN DefaultChannel
  ELSE [width |-> w.width, ranging |-> Ranging(w), confidence |-> Confidence(w)]

-----------------------------------------------------------------------------
Trends(w) == SelectSeq(<<w.t5, w.t1, w.t4>>, LAMBDA t : t # "none")

\* _classify_regime: all timeframes agree, or the two higher ones do.
Agreed(w, t) == \/ Trends(w) # <<>> /\ \A i \in DOMAIN Trends(w) : Trends(w)[i] = t
                \/ w.t1 = t /\ w.t4 = t
Regime(w) ==
  IF Agreed(w, "BULL") THEN "TRENDING_UP"
  ELSE IF Agreed(w, "BEAR") THEN "TRENDING_DOWN"
  ELSE IF w.t1 # "none" /\ w.hourAtr > 30 THEN "VOLATILE"
  ELSE "RANGING"

\* MTFAnalyzer.analyze
Oversold(w) == (w.t1 # "none" /\ w.rsi1 < 30) \/ (w.t4 # "none" /\ w.rsi4 < 30)
DailyAtr(w) == IF w.t4 = "none" THEN 0 ELSE w.dayAtr

\* MarketState.from_keltner_and_mtf: without the timeframes the regime is unknown; a
\* missing RSI counts as 50.
MarketState(w) ==
  [width |-> Channel(w).width, ranging |-> Channel(w).ranging, confidence |-> Channel(w).confidence,
   regime |-> IF w.frames THEN Regime(w) ELSE "UNKNOWN",
   oversold |-> w.frames /\ Oversold(w),
   atr |-> IF w.frames THEN DailyAtr(w) ELSE 0,
   rsi |-> IF w.frames /\ w.t1 # "none" THEN w.rsi1 ELSE 50]

-----------------------------------------------------------------------------
(***************************************************************************)
(* The number of bins of an entry, at 0.05 percent a bin.                  *)
(***************************************************************************)
MinWideBins == 40
MaxWideBins == 200

\* calculate_wide_range_params; nobody passes it pool_stats.  Of its three
\* measures 30 * sqrt(width) exceeds 50 * width only below 18 bins, where the
\* minimum decides: it is left out.
WideParams(width, atr, regime) ==
  LET bins == Clamp(MinWideBins, MaxWideBins, Larger(5 * width, atr))
  IN  IF regime = "TRENDING_DOWN" THEN Smaller(MaxWideBins, (bins * 13) \div 10) ELSE bins

\* _get_narrow_bin_count, 0 when the channel is too wide for it
NarrowBins(width) == IF width > 80 THEN 0 ELSE Clamp(6, 30, width)

\* Broken on purpose: what fits is measured by the narrow range.
OptimalBinsNarrow(m) == NarrowBins(m.width)

\* select_strategy's measure of a position
OptimalBins(m) == WideParams(m.width, m.atr, m.regime)

\* _get_wide_params of an entry, which does not pass the regime on, or _get_narrow_bin_count
EntryBins(m, strategy) == IF strategy = "wide" THEN WideParams(m.width, m.atr, "any") ELSE NarrowBins(m.width)
=============================================================================
