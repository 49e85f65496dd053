--------------------------- MODULE InventoryPolicy ---------------------------
(***************************************************************************)
(* ReentryPolicy: what the wallet should look like between an exit and the *)
(* entry that follows, and the guards a swap has to pass.  Pure operators. *)
(*                                                                         *)
(* The market enters as the regime ("NONE" when the analysis failed), the  *)
(* band of the RSI and the side of the 24 h average the known price is on: *)
(* "below" and "above" are beyond the dead zone, "near" is within it,      *)
(* "unknown" is a failed read of either.                                   *)
(***************************************************************************)
EXTENDS Balances

CONSTANTS Mode,           \* [down, up, neutral]: reentry_policy_exit_down, ...
          RegimeAware,    \* reentry_regime_aware_ratio_enabled
          BaseTarget,     \* [down, up, neutral]: the ratios in the settings
          MaxSwapBps,     \* max_reentry_swap_pct
          MinSwap,        \* min_reentry_swap_usdt
          MaxSwap,        \* reentry_max_swap_usdt, 0: no cap
          Cooldown        \* reentry_swap_cooldown_seconds, in cycles

Directions == {"down", "up", "neutral"}
Regimes == {"TRENDING_UP", "TRENDING_DOWN", "RANGING", "VOLATILE", "NONE"}
RsiBands == {"low", "mid", "high", "unknown"}
Bands == {"below", "near", "above", "unknown"}

ASSUME PolicyAssumption ==
  /\ Mode \in [Directions -> {"continuation_safe", "partial_rebalance", "neutral_rebalance"}]
  /\ RegimeAware \in BOOLEAN
  /\ BaseTarget \in [Directions -> 0..Bps]
  /\ MaxSwapBps \in 0..Bps
  /\ {MinSwap, MaxSwap, Cooldown} \subseteq Nat

\* Only with a rising or a volatile market is a swap considered at all.
EffectiveMode(direction, regime) ==
  IF regime \in {"TRENDING_DOWN", "RANGING"} THEN "continuation_safe" ELSE Mode[direction]

RsiBlocks(direction, rsi) ==
  \/ direction = "down" /\ rsi = "low"
  \/ direction = "up" /\ rsi = "high"

TargetRatio(direction, regime) ==
  CASE direction = "neutral" \/ ~RegimeAware \/ regime = "NONE" -> BaseTarget[direction]
    [] direction = "down" /\ RegimeAware /\ regime # "NONE" ->
         (CASE regime = "TRENDING_DOWN" -> 3500
            [] regime = "TRENDING_UP"   -> 6000
            [] regime = "VOLATILE"      -> 6500
            [] regime = "RANGING"       -> 5000)
    [] direction = "up" /\ RegimeAware /\ regime # "NONE" ->
         (CASE regime = "TRENDING_UP"   -> 5500
            [] regime = "TRENDING_DOWN" -> 2000
            [] regime = "VOLATILE"      -> 9000
            [] regime = "RANGING"       -> 4500)

(***************************************************************************)
(* The guards.  since[side] is the number of cycles since the last swap    *)
(* that was charged to the side, Cooldown standing for none or long ago.   *)
(***************************************************************************)
Sides == {"buy", "sell"}
Favourable(side) == IF side = "buy" THEN "below" ELSE "above"

VwapBlocks(side, band) == band \notin {Favourable(side), "unknown"}
CooldownBlocks(side, since) == since[side] < Cooldown

\* apply_inventory_policy judges the swap by its target, not by its plan.
SideOfTarget(target) == IF target > 5000 THEN "buy" ELSE "sell"
SideOfPlan(plan) == IF plan.action = "buy_mnt" THEN "buy" ELSE "sell"

\* trade_pct > max_swap, with the total read before the plan
TooLarge(plan, total, maxBps) == plan.trade * Bps > maxBps * total

\* _compute_capped_ratio, on the weight and the total read before the plan
CappedRatio(weight, total, target, side) ==
  LET delta == (MaxSwap * Bps) \div total
  IN  IF side = "buy" THEN Least(target, weight + delta)
                      ELSE Larger(target, weight - delta)
=============================================================================
