------------------------------ MODULE Balances ------------------------------
(***************************************************************************)
(* What BalanceManager and FarmBot compute from the contents of a wallet:  *)
(* the plan of a rebalance, the free capital, the allocation of an entry   *)
(* and the reserve for gas.  Pure operators; Capital puts them in order.   *)
(*                                                                         *)
(* A wallet is [native, wmnt, usdt] in the smallest units, a price is USDT *)
(* units per MNT unit.  Shares are basis points as in the settings, a      *)
(* comparison of shares is multiplied out, and an amount is rounded down,  *)
(* but for the amounts of MNT a plan carries: serialize_decimal writes     *)
(* them with twelve places of the eighteen MNT has, each on its own.       *)
(* USDT has six, so a value in USDT comes through it whole.                *)
(***************************************************************************)
EXTENDS Integers

CONSTANTS GasReserve,     \* gas_reserve_mnt
          Headroom,       \* native_estimate_headroom_mnt
          BudgetBps,      \* max_budget_pct
          SafetyBps,      \* safety_margin of calculate_lp_allocation
          MinPosition,    \* min_position_size_usdt
          MinBalance,     \* mnt_min_balance; 0: gas_reserve_mnt stands in
          Grain           \* the units of MNT in the last place serialize_decimal writes

Bps == 10000

ASSUME BalancesAssumption ==
  /\ {GasReserve, Headroom, MinPosition, MinBalance} \subseteq Nat
  /\ BudgetBps \in 0..Bps
  /\ SafetyBps \in 0..Bps
  /\ Grain \in Nat \ {0}

Least(a, b) == IF a <= b THEN a ELSE b
Larger(a, b) == IF a >= b THEN a ELSE b
PartOf(bps, n) == (n * bps) \div Bps
CeilDiv(a, b) == (a + b - 1) \div b

\* serialize_decimal of the amount a / b of MNT: the nearest grain, a tie to the even one.
Serialized(a, b) ==
  LET step == b * Grain
      n    == a \div step
      rest == 2 * (a % step)
  IN  Grain * (IF rest < step \/ (rest = step /\ n % 2 = 0) THEN n ELSE n + 1)

(***************************************************************************)
(* The state of a wallet (get_rebalance_state)                             *)
(***************************************************************************)
Mnt(w) == w.native + w.wmnt
MntValue(w, p) == Mnt(w) * p
TotalValue(w, p) == MntValue(w, p) + w.usdt

\* What the wallet holds too much in MNT for a weight, in bps of USDT.
Excess(w, p, bps) == MntValue(w, p) * Bps - TotalValue(w, p) * bps

(***************************************************************************)
(* plan_rebalance                                                          *)
(***************************************************************************)
Actions == {"none", "sell_mnt", "buy_mnt"}
Reasons == {"zero", "band", "small", "trade"}

NoTrade(reason, value) ==
  [action |-> "none", reason |-> reason, trade |-> value, amountIn |-> 0, wrap |-> 0]

\* Broken on purpose: what has to be wrapped is reckoned against the native balance.
PlanWrapsWrong(w, p, target, tolerance, minTrade) ==
  LET excess == Excess(w, p, target)
      trade  == (IF excess > 0 THEN excess ELSE -excess) \div Bps
  IN  IF TotalValue(w, p) = 0 \/ trade < Larger(1, minTrade) THEN NoTrade("small", trade)
      ELSE IF excess > 0
      THEN [action |-> "sell_mnt", reason |-> "trade", trade |-> trade,
            amountIn |-> Serialized(excess, p * Bps),
            wrap |-> Serialized(Larger(0, excess - w.native * (p * Bps)), p * Bps)]
      ELSE [action |-> "buy_mnt", reason |-> "trade", trade |-> trade, amountIn |-> trade, wrap |-> 0]

Plan(w, p, target, tolerance, minTrade) ==
  LET total  == TotalValue(w, p)
      excess == Excess(w, p, target)
      trade  == (IF excess > 0 THEN excess ELSE -excess) \div Bps
  IN  CASE total = 0 -> NoTrade("zero", 0)
        [] total > 0 /\ excess \in -(tolerance * total)..(tolerance * total)
             -> NoTrade("band", 0)
        [] OTHER ->
             IF trade < minTrade THEN NoTrade("small", trade)
             ELSE IF excess > 0
             THEN [action |-> "sell_mnt", reason |-> "trade", trade |-> trade,
                   amountIn |-> Serialized(excess, p * Bps),
                   wrap |-> Serialized(Larger(0, excess - w.wmnt * (p * Bps)), p * Bps)]
             ELSE [action |-> "buy_mnt", reason |-> "trade", trade |-> trade,
                   amountIn |-> trade, wrap |-> 0]

(***************************************************************************)
(* ensure_mnt_min_balance: how much is missing, and what it costs with the *)
(* two per cent the code adds for slippage                                 *)
(***************************************************************************)
Minimum == IF MinBalance > 0 THEN MinBalance ELSE GasReserve
Deficit(w) == IF w.native < Minimum THEN 2 * Minimum - w.native ELSE 0
TopUpCost(missing, p) == CeilDiv(missing * p * 102, 100)

(***************************************************************************)
(* get_capital_budget, calculate_lp_allocation and the larger reserve      *)
(***************************************************************************)
Budget(w, p) ==
  [mnt   |-> Least(Larger(Mnt(w) - GasReserve - Headroom, 0), PartOf(BudgetBps, Mnt(w))),
   usdt  |-> PartOf(BudgetBps, w.usdt),
   price |-> p]

NotViable == [mnt |-> 0, usdt |-> 0, ok |-> FALSE]

Allocation(budget, p, target) ==
  LET mnt  == PartOf(SafetyBps, budget.mnt)
      usdt == PartOf(SafetyBps, budget.usdt)
      goal == PartOf(target, mnt * p + usdt)
  IN  IF goal < MinPosition THEN NotViable
      ELSE [mnt |-> Least(mnt, goal \div p), usdt |-> Least(usdt, goal), ok |-> TRUE]

\* extra: by how much the adaptive reserve exceeds the one in the budget.  What is left is
\* valued at the price of the budget, not at the one of the allocation.
AfterReserve(alloc, budget, extra) ==
  LET mnt == Larger(0, alloc.mnt - extra)
  IN  CASE ~alloc.ok \/ extra <= 0 -> alloc
        [] alloc.ok /\ extra > 0 /\ mnt * budget.price + alloc.usdt < MinPosition -> NotViable
        [] OTHER -> [alloc EXCEPT !.mnt = mnt]

\* _target_pct_for_strategy: a third when overbought, all when oversold.
TargetBps(strategy, market) ==
  LET base == IF strategy = "wide" THEN Bps ELSE 9000
  IN  CASE market = "overbought" -> PartOf(3300, base)
        [] market = "oversold"   -> base
        [] OTHER                 -> PartOf(7500, base)
=============================================================================
