--------------------------- MODULE StrategyEngine ---------------------------
(***************************************************************************)
(* StrategyEngine.select_strategy as FarmBot calls it: hold, exit and      *)
(* enter again, or enter narrow or wide.  A position is [lo, hi], its      *)
(* lowest and highest bin, or NoPosition; m is a MarketState.              *)
(***************************************************************************)
EXTENDS MarketView

CONSTANTS WideConfidence,   \* wide_confidence_threshold, percent
          OorTolerance,     \* oor_tolerance_bins
          OorCap,           \* oor_tolerance_cap_bins
          Override          \* strategy_override: "narrow", "wide" or "none"

ASSUME EngineAssumption ==
  /\ WideConfidence \in 0..100
  /\ {OorTolerance, OorCap} \subseteq Nat
  /\ Override \in {"narrow", "wide", "none"}

NoPosition == [lo |-> 0, hi |-> -1]
Size(p) == p.hi - p.lo + 1
InRange(p, active) == active \in p.lo..p.hi
Drift(p, active) == IF active < p.lo THEN p.lo - active
                    ELSE IF active > p.hi THEN active - p.hi ELSE 0

\* Broken on purpose: a wide channel stretches the tolerance without limit.
ToleranceUncapped(m) == Larger(OorTolerance, (6 * m.width) \div 10)

\* 0.3 of the channel, in bins, between the two settings
Tolerance(m) == Larger(OorTolerance, Smaller(OorCap, (6 * m.width) \div 10))

OversoldHold == 30
EdgeMargin == -3    \* three bins out of range: never in range
AtEdge(p, active) == active <= p.lo + EdgeMargin \/ active >= p.hi - EdgeMargin

\* _check_position_fitness: more than three times the optimal bins, or less
\* than a quarter of them and the price within 15 percent of an end.
Unfit(p, active, optimal) ==
  \/ AtEdge(p, active)
  \/ Size(p) > 3 * optimal
  \/ /\ 4 * Size(p) < optimal
     /\ p.hi > p.lo
     /\ 100 * Smaller(active - p.lo, p.hi - active) < 15 * (p.hi - p.lo)

Stay(p, active, m) ==
  IF InRange(p, active) THEN ~Unfit(p, active, OptimalBins(m))
  ELSE \/ Drift(p, active) <= Tolerance(m)
       \/ m.oversold /\ Drift(p, active) <= OversoldHold

\* _select_entry; no caller passes pool_stats, so that its first gate is never reached.
SelectEntry(m) ==
  CASE m.rsi > 90 /\ m.regime = "TRENDING_UP" -> "hold"
    [] m.rsi < 20 /\ m.regime = "TRENDING_DOWN" -> "hold"
    [] OTHER ->
       IF \/ m.regime = "VOLATILE"
          \/ m.atr >= 60
          \/ m.regime = "RANGING" /\ Smaller(100, m.confidence + 15) > WideConfidence /\ m.ranging
       THEN "wide" ELSE "narrow"

\* FarmBot.select_strategy, with a strategy from the command line
SelectStrategy(p, active, m) ==
  IF p = NoPosition
  THEN IF Override # "none" THEN Override ELSE SelectEntry(m)
  ELSE IF Override # "none" /\ ~InRange(p, active) THEN "exit_and_reenter"
  ELSE IF Stay(p, active, m) THEN "hold" ELSE "exit_and_reenter"
=============================================================================
