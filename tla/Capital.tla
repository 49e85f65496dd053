------------------------------ MODULE Capital ------------------------------
(***************************************************************************)
(* The wallet of the bot through its cycles: the guard of the native       *)
(* balance, the exit, the policy between exit and entry, the gate before a *)
(* wide entry, the budget, the allocation and the add.  Every transaction  *)
(* is a step of its own and may fail; the price of the pool moves between  *)
(* any two steps, up to MaxMoves times.                                    *)
(*                                                                         *)
(* What the router keeps in fees is rounding here; gas is not charged.  A  *)
(* swap that is carried out pays the price of its moment: the router       *)
(* refuses more than slippage_bps below the quote, and the quote is taken  *)
(* inside swap().                                                          *)
(***************************************************************************)
EXTENDS InventoryPolicy, TLC

CONSTANTS Wallets,      \* the wallets a run starts with
          Prices, MaxMoves, MaxRounds,
          Gate,         \* the settings wide_entry_*, with MINIMUM_VIABLE_USDT
          MaxNative,    \* max_native_lp_value_mnt
          Extras,       \* what the adaptive reserve may add
          Whole,        \* the units in one MNT: less WMNT than that is not unwrapped
          Scales        \* subset of {"overbought", "oversold", "neutral"}

ASSUME CapitalAssumption ==
  /\ Wallets \subseteq [native : Nat, wmnt : Nat, usdt : Nat]
  /\ Prices \subseteq Nat \ {0}
  /\ {MaxMoves, MaxRounds, MaxNative, Whole} \subseteq Nat
  /\ Gate \in [maxWeight : 0..Bps, minUsdt : Nat, target : 0..Bps, tolerance : Nat,
               minTrade : Nat, maxSwap : Nat, viable : Nat]
  /\ Extras \subseteq Nat
  /\ Scales \subseteq {"overbought", "oversold", "neutral"}

VARIABLES wallet, lp, price, moves, round,
          pc,
          cycle,        \* what the cycle knows of the market, its exit, its entry and its swaps
          need,         \* MNT the guard still misses
          seen,         \* the state read before the plan
          plan, swap,   \* the plan in execution and how it came about
          budget, alloc,
          since         \* cycles since the last swap charged to a side

vars == <<wallet, lp, price, moves, round, pc, cycle, need, seen, plan, swap, budget, alloc, since>>
bank == <<wallet, lp>>
work == <<need, seen, plan, swap, budget, alloc>>

Steps == {"idle", "guard", "topup", "topupSwap", "topupUnwrap", "look", "exited", "policy",
          "policyPlan", "policyCap", "wrap", "swap", "select", "budget", "gate", "gatePlan",
          "gateForce", "refreshed", "allocate", "add", "mint"}

NoPlan == NoTrade("band", 0)
NoSwap == [by |-> "none", side |-> "sell", band |-> "unknown", forced |-> FALSE]
NoSight == [total |-> 0, weight |-> 0, mnt |-> 0, usdt |-> 0, price |-> 1]
Empty == [mnt |-> 0, usdt |-> 0]
NoBudget == [mnt |-> 0, usdt |-> 0, price |-> 0]
Calm == [regime |-> "NONE", dir |-> "neutral", prep |-> TRUE, strategy |-> "wide",
         market |-> "neutral", traded |-> {}]

Init ==
  /\ wallet \in Wallets
  /\ lp = Empty
  /\ price \in Prices
  /\ moves = 0 /\ round = 0
  /\ pc = "idle"
  /\ cycle = Calm
  /\ need = 0 /\ seen = NoSight /\ plan = NoPlan /\ swap = NoSwap
  /\ budget = NoBudget /\ alloc = NotViable
  /\ since = [s \in Sides |-> Cooldown]

PriceMoves ==
  /\ moves < MaxMoves /\ pc # "idle"
  /\ price' \in Prices \ {price}
  /\ moves' = moves + 1
  /\ UNCHANGED <<bank, round, pc, cycle, work, since>>

Goto(step) == pc' = step
Keep == UNCHANGED <<price, moves, round>>

\* The end of a cycle, whatever it came to; what it knew is forgotten.
EndCycle ==
  /\ Goto("idle")
  /\ cycle' = Calm /\ need' = 0 /\ seen' = NoSight /\ plan' = NoPlan /\ swap' = NoSwap
  /\ budget' = NoBudget /\ alloc' = NotViable
  /\ UNCHANGED since /\ Keep

\* The regime select_strategy keeps for the policy of the cycle.
StartCycle ==
  /\ pc = "idle" /\ round < MaxRounds
  /\ round' = round + 1
  /\ \E regime \in Regimes : cycle' = [Calm EXCEPT !.regime = regime]
  /\ since' = [s \in Sides |-> Least(Cooldown, since[s] + 1)]
  /\ Goto("guard")
  /\ UNCHANGED <<bank, price, moves, work>>

Unwrapped(w, amount) == [w EXCEPT !.native = @ + amount, !.wmnt = @ - amount]
Wrapped(w, amount) == [w EXCEPT !.native = @ - amount, !.wmnt = @ + amount]
Bought(w, amount, p) == [w EXCEPT !.usdt = @ - amount, !.wmnt = @ + amount \div p]
Sold(w, amount, p) == [w EXCEPT !.wmnt = @ - amount, !.usdt = @ + amount * p]

(***************************************************************************)
(* ensure_mnt_min_balance.  What it raises is logged and the cycle goes on *)
(***************************************************************************)
\* Broken on purpose: the unwrap before the swap is not taken off what is missing.
GuardUnwrapTwice ==
  /\ pc = "guard" /\ Deficit(wallet) > 0 /\ wallet.wmnt > 0
  /\ wallet' = Unwrapped(wallet, Least(wallet.wmnt, Deficit(wallet)))
  /\ need' = Deficit(wallet) /\ Goto("topup")
  /\ UNCHANGED <<lp, cycle, seen, plan, swap, budget, alloc, since>> /\ Keep

GuardUnwrap ==
  /\ pc = "guard" /\ Deficit(wallet) > 0 /\ wallet.wmnt > 0
  /\ LET amount == Least(wallet.wmnt, Deficit(wallet))
     IN  /\ wallet' = Unwrapped(wallet, amount)
         /\ need' = Deficit(wallet) - amount
         /\ Goto(IF need' = 0 THEN "look" ELSE "topup")
  /\ UNCHANGED <<lp, cycle, seen, plan, swap, budget, alloc, since>> /\ Keep

GuardNeedsSwap ==
  /\ pc = "guard" /\ Deficit(wallet) > 0 /\ wallet.wmnt = 0
  /\ need' = Deficit(wallet)
  /\ Goto("topup")
  /\ UNCHANGED <<bank, cycle, seen, plan, swap, budget, alloc, since>> /\ Keep

\* Broken on purpose: the guard does not look at how much USDT there is.
TopUpUnchecked ==
  /\ pc = "topup"
  /\ plan' = [NoPlan EXCEPT !.action = "buy_mnt", !.amountIn = TopUpCost(need, price)]
  /\ Goto("topupSwap")
  /\ UNCHANGED <<bank, cycle, need, seen, swap, budget, alloc, since>> /\ Keep

TopUpPlan ==
  /\ pc = "topup"
  /\ LET cost == Least(wallet.usdt, TopUpCost(need, price))
     IN  /\ cost > 0
         /\ plan' = [NoPlan EXCEPT !.action = "buy_mnt", !.amountIn = cost]
  /\ Goto("topupSwap")
  /\ UNCHANGED <<bank, cycle, need, seen, swap, budget, alloc, since>> /\ Keep

TopUpSwap ==
  /\ pc = "topupSwap"
  /\ wallet' = Bought(wallet, plan.amountIn, price)
  /\ Goto("topupUnwrap")
  /\ UNCHANGED <<lp, cycle, work, since>> /\ Keep

TopUpUnwrap ==
  /\ pc = "topupUnwrap"
  /\ wallet' = Unwrapped(wallet, Least(wallet.wmnt, need))
  /\ need' = 0 /\ plan' = NoPlan
  /\ Goto("look")
  /\ UNCHANGED <<lp, cycle, seen, swap, budget, alloc, since>> /\ Keep

\* Nothing to do, nothing to pay with, or a call that fails.
GuardEnds ==
  /\ pc \in {"guard", "topup", "topupSwap", "topupUnwrap"}
  /\ need' = 0 /\ plan' = NoPlan
  /\ Goto("look")
  /\ UNCHANGED <<bank, cycle, seen, swap, budget, alloc, since>> /\ Keep

(***************************************************************************)
(* The decision of the cycle, and the exit                                 *)
(***************************************************************************)
Hold == /\ pc \in {"look", "select"}
        /\ EndCycle /\ UNCHANGED bank

\* A narrow entry goes past the gate.
Enter ==
  /\ pc = "look" /\ lp = Empty
  /\ \E m \in Scales, s \in {"wide", "narrow"} :
       cycle' = [cycle EXCEPT !.market = m, !.strategy = s, !.prep = (s = "wide")]
  /\ Goto("budget")
  /\ UNCHANGED <<bank, work, since>> /\ Keep

\* What the pair pays out: a range the price left downward holds MNT only, one it left
\* upward USDT.
Recovered(dir) ==
  LET value == lp.mnt * price + lp.usdt
  IN  CASE dir = "down"    -> [mnt |-> value \div price, usdt |-> 0]
        [] dir = "up"      -> [mnt |-> 0, usdt |-> value]
        [] dir = "neutral" -> lp

\* removeLiquidity pays out in WMNT, never native.
ExitPosition ==
  /\ pc = "look" /\ lp # Empty
  /\ \E dir \in Directions :
       /\ cycle' = [cycle EXCEPT !.dir = dir]
       /\ wallet' = [wallet EXCEPT !.wmnt = @ + Recovered(dir).mnt, !.usdt = @ + Recovered(dir).usdt]
  /\ lp' = Empty
  /\ Goto("exited")
  /\ UNCHANGED <<work, since>> /\ Keep

\* Step 1.5 and its twin before the add: all WMNT, if it is more than one, and no harm if
\* it fails.
UnwrapsAll(w) == {w} \cup {Unwrapped(w, a) : a \in {w.wmnt} \ 0..Whole}

ExitUnwrap ==
  /\ pc = "exited"
  /\ wallet' \in UnwrapsAll(wallet)
  /\ Goto("policy")
  /\ UNCHANGED <<lp, cycle, work, since>> /\ Keep

(***************************************************************************)
(* apply_inventory_policy, between the exit and the entry                  *)
(***************************************************************************)
Target == TargetRatio(cycle.dir, cycle.regime)

\* build_reentry_intent asks for the gate unless the policy was continuation_safe.
PolicyEnds(continues) ==
  /\ cycle' = [cycle EXCEPT !.prep = ~continues]
  /\ Goto("select")
  /\ seen' = NoSight /\ plan' = NoPlan /\ swap' = NoSwap

PolicyContinues ==
  /\ pc = "policy" /\ EffectiveMode(cycle.dir, cycle.regime) = "continuation_safe"
  /\ PolicyEnds(TRUE)
  /\ UNCHANGED <<bank, need, budget, alloc, since>> /\ Keep

Sight == [total  |-> TotalValue(wallet, price),
          weight |-> IF TotalValue(wallet, price) = 0 THEN 0
                     ELSE (MntValue(wallet, price) * Bps) \div TotalValue(wallet, price),
          mnt    |-> MntValue(wallet, price),
          usdt   |-> wallet.usdt,
          price  |-> price]

PolicyReads ==
  /\ pc = "policy" /\ EffectiveMode(cycle.dir, cycle.regime) # "continuation_safe"
  /\ \E rsi \in RsiBands :
       IF RsiBlocks(cycle.dir, rsi)
       THEN PolicyEnds(FALSE)
       ELSE /\ seen' = Sight /\ Goto("policyPlan")
            /\ UNCHANGED <<cycle, plan, swap>>
  /\ UNCHANGED <<bank, need, budget, alloc, since>> /\ Keep

\* The step that carries a plan out: wrap first when the plan says so.
Execute(p) == /\ plan' = p
              /\ Goto(IF p.wrap > 0 THEN "wrap" ELSE "swap")

\* The guard compares the price the cycle began with to an average it reads anew.
PolicyPlans ==
  /\ pc = "policyPlan"
  /\ LET p    == Plan(wallet, price, Target, 0, MinSwap)
         side == SideOfTarget(Target)
     IN  \E band \in Bands :
         IF \/ p.action = "none"
            \/ TooLarge(p, seen.total, MaxSwapBps)
            \/ VwapBlocks(side, band)
            \/ CooldownBlocks(side, since)
         THEN PolicyEnds(FALSE)
         ELSE /\ swap' = [by |-> "policy", side |-> side, band |-> band, forced |-> FALSE]
              /\ IF /\ MaxSwap > 0 /\ p.trade > MaxSwap /\ seen.total > 0
                    /\ CappedRatio(seen.weight, seen.total, Target, side) # Target
                 THEN plan' = p /\ Goto("policyCap")
                 ELSE Execute(p)
              /\ UNCHANGED <<cycle, seen>>
  /\ UNCHANGED <<bank, need, budget, alloc, since>> /\ Keep

\* Broken on purpose: the capped plan is made for the target before the cap.
PolicyCapsNot ==
  /\ pc = "policyCap"
  /\ Execute(Plan(wallet, price, Target, 0, MinSwap))
  /\ UNCHANGED <<cycle, seen, swap>>
  /\ UNCHANGED <<bank, need, budget, alloc, since>> /\ Keep

PolicyCaps ==
  /\ pc = "policyCap"
  /\ LET p == Plan(wallet, price, CappedRatio(seen.weight, seen.total, Target, swap.side), 0, MinSwap)
     IN  IF p.action = "none" THEN PolicyEnds(FALSE)
         ELSE Execute(p) /\ UNCHANGED <<cycle, seen, swap>>
  /\ UNCHANGED <<bank, need, budget, alloc, since>> /\ Keep

\* The exception is caught and the re-entry goes on, with the gate.
PolicyFails ==
  /\ \/ pc \in {"policy", "policyPlan", "policyCap"}
     \/ pc \in {"wrap", "swap"} /\ swap.by = "policy"
  /\ PolicyEnds(FALSE)
  /\ UNCHANGED <<bank, need, budget, alloc, since>> /\ Keep

(***************************************************************************)
(* execute_rebalance, for the policy and for the gate                      *)
(***************************************************************************)
Wrap ==
  /\ pc = "wrap" /\ wallet.native >= plan.wrap
  /\ wallet' = Wrapped(wallet, plan.wrap)
  /\ Goto("swap")
  /\ UNCHANGED <<lp, cycle, work, since>> /\ Keep

Funded == IF plan.action = "sell_mnt" THEN wallet.wmnt >= plan.amountIn
                                      ELSE wallet.usdt >= plan.amountIn

\* The timestamps of the cooldown are set after the transaction.
Swap ==
  /\ pc = "swap" /\ Funded
  /\ wallet' = IF plan.action = "sell_mnt" THEN Sold(wallet, plan.amountIn, price)
                                           ELSE Bought(wallet, plan.amountIn, price)
  /\ since' = [since EXCEPT ![swap.side] = 0]
  /\ cycle' = [cycle EXCEPT !.prep = TRUE, !.traded = @ \cup {<<SideOfPlan(plan), swap.band>>}]
  /\ Goto(IF swap.by = "policy" THEN "select" ELSE "refreshed")
  /\ seen' = NoSight /\ plan' = NoPlan /\ swap' = NoSwap
  /\ UNCHANGED <<lp, need, budget, alloc>> /\ Keep

(***************************************************************************)
(* The entry: budget, gate, allocation, add                                *)
(***************************************************************************)
\* The market is analysed again; a narrow entry is overridden to a wide one.
SelectEntry ==
  /\ pc = "select"
  /\ \E m \in Scales : cycle' = [cycle EXCEPT !.market = m]
  /\ Goto("budget")
  /\ UNCHANGED <<bank, work, since>> /\ Keep

\* The executor reads the budget itself; a price it cannot read counts as zero.
ReadBudget ==
  /\ pc = "budget"
  /\ \E p \in {price, 0} : budget' = Budget(wallet, p)
  /\ Goto(IF cycle.prep THEN "gate" ELSE "allocate")
  /\ UNCHANGED <<bank, cycle, need, seen, plan, swap, alloc, since>> /\ Keep

Skewed == \/ Excess(wallet, price, Gate.maxWeight) > 0
          \/ Excess(wallet, price, Bps - Gate.maxWeight) < 0
          \/ wallet.usdt < Gate.minUsdt

GateReads ==
  /\ pc = "gate"
  /\ IF Skewed THEN seen' = Sight /\ Goto("gatePlan")
               ELSE Goto("allocate") /\ UNCHANGED seen
  /\ UNCHANGED <<bank, cycle, need, plan, swap, budget, alloc, since>> /\ Keep

Minority(p) == IF p.action = "buy_mnt" THEN seen.mnt ELSE seen.usdt

GateHolds(p) == \/ p.reason = "zero"
                \/ p.action # "none" /\ TooLarge(p, seen.total, Gate.maxSwap)

\* The wallet has next to nothing of one token: a small swap, past every guard.
GateForces(p) ==
  /\ p.action # "none" /\ ~GateHolds(p) /\ Minority(p) < Gate.viable
  /\ swap' = [by |-> "wide", side |-> SideOfPlan(p), band |-> "unknown", forced |-> TRUE]
  /\ Goto("gateForce") /\ UNCHANGED plan

\* Broken on purpose: the gate forgets the average.
GateTradesAnywhere(p) ==
  /\ p.action # "none" /\ ~GateHolds(p) /\ Minority(p) >= Gate.viable
  /\ IF CooldownBlocks(SideOfPlan(p), since) \/ (MaxSwap > 0 /\ p.trade > MaxSwap)
     THEN Goto("allocate") /\ UNCHANGED <<plan, swap>>
     ELSE /\ \E band \in Bands :
               swap' = [by |-> "wide", side |-> SideOfPlan(p), band |-> band, forced |-> FALSE]
          /\ Execute(p)

\* The gate compares the price of the last select_strategy to an average it reads anew.
GateTrades(p) ==
  /\ p.action # "none" /\ ~GateHolds(p) /\ Minority(p) >= Gate.viable
  /\ \E band \in Bands :
       IF \/ VwapBlocks(SideOfPlan(p), band)
          \/ CooldownBlocks(SideOfPlan(p), since)
          \/ MaxSwap > 0 /\ p.trade > MaxSwap
       THEN Goto("allocate") /\ UNCHANGED <<plan, swap>>
       ELSE /\ swap' = [by |-> "wide", side |-> SideOfPlan(p), band |-> band, forced |-> FALSE]
            /\ Execute(p)

GatePlans ==
  /\ pc = "gatePlan"
  /\ LET p == Plan(wallet, price, Gate.target, Gate.tolerance, Gate.minTrade)
     IN  \/ GateForces(p)
         \/ GateTrades(p)
         \/ p.reason \in {"small", "band"} /\ Goto("allocate") /\ UNCHANGED <<plan, swap>>
  /\ UNCHANGED <<bank, cycle, need, seen, budget, alloc, since>> /\ Keep

\* Broken on purpose: the small step is forgotten.
ForcedToTarget(side) == Gate.target

ForcedTarget(side) ==
  Larger(1000, Least(9000, seen.weight + (IF side = "sell" THEN 500 ELSE -500)))

\* The small swap is planned from a later read of the wallet's value.
GateForced ==
  /\ pc = "gateForce"
  /\ LET small == Plan(wallet, price, ForcedTarget(swap.side), 0, Gate.viable)
     IN  IF small.action = "none"
         THEN Goto("allocate") /\ swap' = NoSwap /\ UNCHANGED plan
         ELSE Execute(small) /\ UNCHANGED swap
  /\ UNCHANGED <<bank, cycle, need, seen, budget, alloc, since>> /\ Keep

GateWaits ==
  /\ pc = "gatePlan"
  /\ GateHolds(Plan(wallet, price, Gate.target, Gate.tolerance, Gate.minTrade))
  /\ EndCycle /\ UNCHANGED bank

\* Broken on purpose: the budget from before the swap is used.
RefreshStale ==
  /\ pc = "refreshed" /\ ~Skewed
  /\ Goto("allocate")
  /\ UNCHANGED <<bank, cycle, need, seen, plan, swap, budget, alloc, since>> /\ Keep

Refresh ==
  /\ pc = "refreshed" /\ ~Skewed
  /\ \E p \in {price, 0} : budget' = Budget(wallet, p)
  /\ Goto("allocate")
  /\ UNCHANGED <<bank, cycle, need, seen, plan, swap, alloc, since>> /\ Keep

StillSkewed == /\ pc = "refreshed" /\ Skewed
               /\ EndCycle /\ UNCHANGED bank

Allot(extra) ==
  AfterReserve(Allocation(budget, price, TargetBps(cycle.strategy, cycle.market)), budget, extra)

Allocate ==
  /\ pc = "allocate"
  /\ \E extra \in Extras : Allot(extra).ok /\ alloc' = Allot(extra)
  /\ Goto("add")
  /\ UNCHANGED <<bank, cycle, need, seen, plan, swap, budget, since>> /\ Keep

TooSmall == /\ pc = "allocate" /\ \E extra \in Extras : ~Allot(extra).ok
            /\ EndCycle /\ UNCHANGED bank

\* The rebalance before it calls a method that does not exist and only logs.
EntryUnwrap ==
  /\ pc = "add"
  /\ wallet' \in UnwrapsAll(wallet)
  /\ Goto("mint")
  /\ UNCHANGED <<lp, cycle, work, since>> /\ Keep

\* _ensure_native_mnt_headroom unwraps what is missing, or nothing.
WithHeadroom(w, value) ==
  LET short == value + GasReserve + Headroom - w.native
  IN  IF short > 0 /\ w.wmnt >= short THEN Unwrapped(w, short) ELSE w

\* The router takes both tokens or one of them and refunds the rest.
Mint ==
  /\ pc = "mint"
  /\ LET value == Least(alloc.mnt, MaxNative)
         w     == WithHeadroom(wallet, value)
     IN  \E used \in {[mnt |-> value, usdt |-> alloc.usdt], [mnt |-> value, usdt |-> 0],
                      [mnt |-> 0, usdt |-> alloc.usdt]} :
           /\ w.native >= value /\ used # Empty
           /\ wallet' = [w EXCEPT !.native = @ - used.mnt, !.usdt = @ - used.usdt]
           /\ lp' = used
  /\ EndCycle

\* A call of the entry fails: the exception ends the cycle.
EntryFails ==
  /\ \/ /\ pc \in {"budget", "gate", "gatePlan", "gateForce", "refreshed", "allocate"}
        /\ UNCHANGED wallet
     \/ pc \in {"wrap", "swap"} /\ swap.by = "wide" /\ UNCHANGED wallet
     \/ pc = "mint" /\ wallet' \in {wallet, WithHeadroom(wallet, Least(alloc.mnt, MaxNative))}
  /\ EndCycle /\ UNCHANGED lp

Next ==
  \/ PriceMoves \/ StartCycle
  \/ GuardUnwrap \/ GuardNeedsSwap \/ TopUpPlan \/ TopUpSwap \/ TopUpUnwrap \/ GuardEnds
  \/ Hold \/ Enter \/ ExitPosition \/ ExitUnwrap
  \/ PolicyContinues \/ PolicyReads \/ PolicyPlans \/ PolicyCaps \/ PolicyFails
  \/ Wrap \/ Swap
  \/ SelectEntry \/ ReadBudget \/ GateReads \/ GatePlans \/ GateForced \/ GateWaits
  \/ Refresh \/ StillSkewed
  \/ Allocate \/ TooSmall \/ EntryUnwrap \/ Mint \/ EntryFails

Spec == Init /\ [][Next]_vars

(***************************************************************************)
(* Properties                                                              *)
(***************************************************************************)
Amounts == [mnt : Nat, usdt : Nat]

TypeOK ==
  /\ wallet \in [native : Nat, wmnt : Nat, usdt : Nat]
  /\ lp \in Amounts /\ budget \in [mnt : Nat, usdt : Nat, price : Prices \cup {0}]
  /\ alloc \in [mnt : Nat, usdt : Nat, ok : BOOLEAN]
  /\ price \in Prices /\ moves \in 0..MaxMoves /\ round \in 0..MaxRounds
  /\ pc \in Steps /\ need \in Nat
  /\ seen \in [total : Nat, weight : 0..Bps, mnt : Nat, usdt : Nat, price : Prices \cup {1}]
  /\ plan \in [action : Actions, reason : Reasons, trade : Nat, amountIn : Nat, wrap : Nat]
  /\ swap \in [by : {"none", "policy", "wide"}, side : Sides, band : Bands, forced : BOOLEAN]
  /\ cycle \in [regime : Regimes, dir : Directions, prep : BOOLEAN,
                strategy : {"wide", "narrow"}, market : Scales \cup {"neutral"}, traded : SUBSET (Sides \X Bands)]
  /\ since \in [Sides -> 0..Cooldown]

\* Whatever moved between the reads, the plan, the unwraps before it and the wrap, the
\* wallet holds what a planned swap pays when its turn comes, but for the last place of the
\* amounts: the sale and its wrap are rounded one by one (plan_rebalance: amount_in and
\* wrap_amount_mnt_first), a purchase is not (usdt_needed = usdt_bal in the guard).
SwapFundedToAGrain ==
  /\ pc = "wrap" => 2 * plan.wrap <= 2 * wallet.native + Grain
  /\ pc = "swap" /\ plan.action = "sell_mnt" => plan.amountIn <= wallet.wmnt + Grain
  /\ pc = "swap" /\ plan.action = "buy_mnt" => plan.amountIn <= wallet.usdt
  /\ pc = "topupSwap" => plan.amountIn <= wallet.usdt

\* build_reentry_intent fears "whipsaw losses": a cycle that sells MNT and buys it too has
\* sold above the average and bought below it, each as its own guard read price and average,
\* unless a read failed or the gate forced a swap.  A sale the policy took for a purchase
\* goes below the average, and then the cooldown keeps the gate from buying there.
NoWhipsaw ==
  \A t, u \in cycle.traded :
    t[1] = "sell" /\ u[1] = "buy" /\ "unknown" \notin {t[2], u[2]}
      => t[2] = "above" /\ u[2] = "below"

\* The size of a swap whose plan is made at the price the state was read at.  One of the
\* policy stays within the cap as long as its plan goes the way its target was taken for;
\* the rounding of the ratios may add a basis point of the wallet (_compute_capped_ratio).
\* One past every guard moves at most a tenth of the wallet, whichever way the plan it comes
\* from went (the override in _prepare_wide_entry_inventory: 500 bps, clamped to 1000..9000).
SwapWithinCap ==
  [][(pc \in {"policyPlan", "policyCap", "gateForce"} /\ pc' \in {"wrap", "swap"}
        /\ price = seen.price) =>
       (/\ swap'.forced => 10 * plan'.trade <= seen.total
        /\ swap'.by = "policy" /\ MaxSwap > 0 /\ swap'.side = SideOfPlan(plan')
             => plan'.trade * Bps <= MaxSwap * Bps + seen.total)]_vars

\* An add that takes MNT leaves the gas reserve and the headroom in the wallet, whichever
\* swaps came before it in the cycle (get_capital_budget is read again after a swap).
EntryKeepsReserve ==
  [][lp = Empty /\ lp'.mnt > 0 => Mnt(wallet') >= GasReserve + Headroom]_vars

\* The guard of the native balance fills it up to twice the minimum and not beyond,
\* whatever it unwraps before and after its swap and at whichever price that is.
TopUpWithinTarget ==
  [][(pc \in {"guard", "topupUnwrap"} /\ wallet'.native > wallet.native)
       => (wallet'.native <= 2 * Minimum)]_vars

\* execute_rebalance takes a plan for carried out: the wrap it makes first covers the swap.
SwapIsFunded == pc = "swap" => Funded

\* _check_vwap_guard: "Sell MNT only when price > VWAP + dead_zone", "Buy MNT only when
\* price < VWAP - dead_zone".
TradesOnlyFavourably ==
  pc \in {"wrap", "swap"} /\ swap.band # "unknown" => swap.band = Favourable(SideOfPlan(plan))

\* _prepare_wide_entry_inventory: "If minority token < $5, we MUST swap a small amount
\* regardless of guards."
MinorityIsSwapped ==
  pc = "gatePlan" =>
    LET p == Plan(wallet, price, Gate.target, Gate.tolerance, Gate.minTrade)
    IN  p.action # "none" /\ Minority(p) < Gate.viable => ~GateHolds(p)
=============================================================================
