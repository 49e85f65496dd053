---------------------------- MODULE Distribution ----------------------------
(***************************************************************************)
(* How LPService spreads two amounts over the bins of a range: candidates  *)
(* of equal liquidity per bin, the one-sided candidate, the weights of a   *)
(* shape, the choice, and the shares of One handed to the router.          *)
(*                                                                         *)
(* A bin is its distance d from the active bin, allocations and shares are *)
(* functions over the range.  X is sold above the active bin and priced in *)
(* Y.  Amounts are whole units and rounded down, where the code keeps 28   *)
(* digits; Scale is the fixed point of a sum of inverse prices.            *)
(***************************************************************************)
EXTENDS BinRange, Sequences, FiniteSetsExt, Functions

CONSTANTS One,          \* the unit of the shares, 10^18 in the router
          Scale,
          Price(_),     \* price_from_bin_id: a bin's price, rising with its id
          SkewBps       \* SKEW_THRESHOLD

ASSUME DistributionAssumption ==
  One \in Nat \ {0, 1} /\ Scale \in Nat \ {0} /\ SkewBps \in {n \in Nat : n <= 10000}

Above(ds) == {d \in ds : d > 0}
Below(ds) == {d \in ds : d < 0}
Zeros(ds) == [d \in ds |-> 0]
Sum1(f) == SumFunction(f)

(***************************************************************************)
(* _candidate_uniform_allocations: liquidity l in every bin, all of it in  *)
(* the active bin's X, all in its Y, or what is left of both amounts.      *)
(***************************************************************************)
InverseAbove(ds, active) == Sum1([d \in Above(ds) |-> Scale \div Price(active + d)])

Liquidity(mode, ds, active, x, y) ==
  LET p   == Price(active)
      inv == InverseAbove(ds, active)
      neg == Cardinality(Below(ds))
      ofX(n) == IF n > 0 THEN {(x * Scale) \div n} ELSE {}
      ofY(n) == IF n > 0 THEN {y \div n} ELSE {}
  IN  CASE mode = "mixed"  -> ((p * x + y) * Scale) \div (Scale + p * inv + neg * Scale)
        [] mode = "x_only" -> Min(ofX(inv + Scale \div p) \cup ofY(neg))
        [] mode = "y_only" -> Min(ofX(inv) \cup ofY(neg + 1))

Filling(mode, l, ds, active, x, y) ==
  LET xs == [d \in ds |-> IF d > 0 THEN l \div Price(active + d) ELSE 0]
      ys == [d \in ds |-> IF d < 0 THEN l ELSE 0]
      x0 == CASE mode = "mixed" -> x - Sum1(xs) [] mode = "x_only" -> l \div Price(active) [] OTHER -> 0
      y0 == CASE mode = "mixed" -> y - Sum1(ys) [] mode = "y_only" -> l [] OTHER -> 0
  IN  [mode |-> mode, l |-> l, x |-> [xs EXCEPT ![0] = x0], y |-> [ys EXCEPT ![0] = y0]]

Uniform(mode, ds, active, x, y) ==
  Filling(mode, Liquidity(mode, ds, active, x, y), ds, active, x, y)

\* A mixed candidate would need more of one token than there is.
Feasible(c) == c.x[0] >= 0 /\ c.y[0] >= 0

\* _one_sided_y_candidate; its counterpart for X is never asked for.
OneSidedY(ds, y) ==
  LET bins == Below(ds) \cup {0}
      each == y \div Cardinality(bins)
  IN  [mode |-> "y_only_onesided", l |-> each, x |-> Zeros(ds),
       y |-> [d \in ds |-> IF d \in bins THEN each ELSE 0]]

(***************************************************************************)
(* Shapes: weights over the range, lowest bin first (lp_shapes).  They are *)
(* normalised, so the steepness of a slope cancels out.                    *)
(***************************************************************************)
Directions1 == {"ascending", "descending", "peak", "valley"}
Curves == {"exponential", "logarithmic", "bell", "u_curve"}
Shapes == {"uniform"} \cup Directions1 \cup Curves
Absolute(n) == IF n < 0 THEN -n ELSE n

SlopeWeights(ds, direction) ==
  LET n == Cardinality(ds)
      i(d) == d - Min(ds)
      mid == n \div 2
      w == [d \in ds |->
              CASE direction = "ascending"  -> i(d)
                [] direction = "descending" -> n - 1 - i(d)
                [] direction = "peak"       -> mid - Absolute(i(d) - mid)
                [] direction = "valley"     -> Absolute(i(d) - mid)]
  IN  IF Sum1(w) > 0 THEN w ELSE [d \in ds |-> 1]

\* calculate_curve_weights by integers of the same order: all positive but the logarithm of 1.
CurveWeights(ds, type) ==
  LET n == Cardinality(ds)
      i(d) == d - Min(ds)
      far(d) == Absolute(2 * i(d) - n)
      w == [d \in ds |->
              CASE type = "exponential" -> 2 ^ i(d)
                [] type = "logarithmic" -> IF i(d) = 0 THEN 0 ELSE 1 + i(d) \div 2
                [] type = "bell"        -> 2 * n + 1 - far(d)
                [] type = "u_curve"     -> 1 + far(d)]
  IN  IF Sum1(w) > 0 THEN w ELSE [d \in ds |-> 1]

Weights(ds, shape) == CASE shape = "uniform" -> [d \in ds |-> 1]
                        [] shape \in Directions1 -> SlopeWeights(ds, shape)
                        [] OTHER -> CurveWeights(ds, shape)

\* _apply_shape_weights: each token over the bins that have some of it.
Reweighted(alloc, w) ==
  LET bins == {d \in DOMAIN alloc : alloc[d] > 0}
      sum  == SumFunctionOnSet(w, bins)
  IN  IF bins = {} \/ sum = 0 THEN alloc
      ELSE [d \in DOMAIN alloc |->
              IF d \in bins THEN (SumFunctionOnSet(alloc, bins) * w[d]) \div sum ELSE alloc[d]]

Shaped(c, ds, shape) ==
  IF shape = "uniform" \/ c.mode # "mixed" THEN c
  ELSE [c EXCEPT !.x = Reweighted(@, Weights(ds, shape)), !.y = Reweighted(@, Weights(ds, shape))]

(***************************************************************************)
(* _liquidity_distributions: the candidates in their order, the best one   *)
(* (the first of several), and its shares.                                 *)
(***************************************************************************)
Candidates(ds, active, x, y, shape) ==
  LET c(mode) == Uniform(mode, ds, active, x, y)
      skewed  == y * 10000 > SkewBps * (x * Price(active) + y)
  IN  (IF Feasible(c("mixed")) THEN <<Shaped(c("mixed"), ds, shape)>> ELSE <<>>)
        \o <<c("x_only"), c("y_only")>>
        \o (IF skewed THEN <<OneSidedY(ds, y)>> ELSE <<>>)

ValueOf(c, active) == Price(active) * Sum1(c.x) + Sum1(c.y)
Better(c, d, active) == \/ c.l > d.l
                        \/ c.l = d.l /\ ValueOf(c, active) > ValueOf(d, active)

Best(cs, prefer, active) ==
  LET wanted == {i \in 1..Len(cs) : cs[i].mode = prefer}
      among  == IF wanted = {} THEN 1..Len(cs) ELSE wanted
      best   == {i \in among : \A j \in among : ~Better(cs[j], cs[i], active)}
  IN  cs[Min(best)]

\* _distribution_from_allocations: what rounding leaves over goes to the last bin in use.
Shares(alloc, total) ==
  LET raw  == [d \in DOMAIN alloc |-> (alloc[d] * One) \div total]
      used == {d \in DOMAIN alloc : alloc[d] > 0}
      rest == (Sum1(alloc) * One) \div total - Sum1(raw)
  IN  IF total <= 0 THEN Zeros(DOMAIN alloc)
      ELSE IF used = {} THEN raw
      ELSE [raw EXCEPT ![Max(used)] = @ + rest]

(***************************************************************************)
(* _sdk_spot_distribution, for three bins and no shape.  It says nothing   *)
(* of what is used, which reads as nothing.                                *)
(***************************************************************************)
SdkSpot == [mode |-> "sdk_spot", xUsed |-> 0, yUsed |-> 0,
            x |-> [d \in -1..1 |-> CASE d < 0 -> 0
                                     [] d = 0 -> One \div 2
                                     [] d > 0 -> One - One \div 2],
            y |-> [d \in -1..1 |-> CASE d < 0 -> (2 * One) \div 3
                                     [] d = 0 -> One - (2 * One) \div 3
                                     [] d > 0 -> 0]]

\* What a candidate hands to the router.
SharedOut(best, x, y) ==
  [mode |-> best.mode, xUsed |-> Sum1(best.x), yUsed |-> Sum1(best.y),
   x |-> Shares(best.x, x), y |-> Shares(best.y, y)]

\* No bin may be without a share of either token: MIN_DIST fills it.
Filled(plan) ==
  LET empty == {d \in DOMAIN plan.x : plan.x[d] = 0 /\ plan.y[d] = 0}
  IN  [plan EXCEPT !.x = [d \in DOMAIN @ |-> IF d \in empty /\ d > 0 THEN 1 ELSE @[d]],
                   !.y = [d \in DOMAIN @ |-> IF d \in empty /\ d <= 0 THEN 1 ELSE @[d]]]

\* Broken on purpose: bins without liquidity stay without.
DistributionWithHoles(ds, active, x, y, shape, prefer) ==
  IF ds = -1..1 /\ shape = "uniform" THEN SdkSpot
  ELSE SharedOut(Best(Candidates(ds, active, x, y, shape), prefer, active), x, y)

\* _liquidity_distributions, as create_position calls it.
DistributionOf(ds, active, x, y, shape, prefer) ==
  IF ds = -1..1 /\ shape = "uniform" THEN SdkSpot
  ELSE Filled(SharedOut(Best(Candidates(ds, active, x, y, shape), prefer, active), x, y))

\* _resolve_recompute_prefer_mode
PreferAfterShift(mode, before, after) ==
  IF mode \in {"x_only", "x_only_onesided", "y_only", "y_only_onesided"} THEN mode
  ELSE IF after < before THEN "y_only" ELSE "x_only"
=============================================================================
