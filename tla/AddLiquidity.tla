---------------------------- MODULE AddLiquidity ----------------------------
(***************************************************************************)
(* create_position from the amounts to the router: the distribution for    *)
(* the active bin as read, the amounts of an unused token set to zero, the *)
(* last look at the active bin and the recompute, the add itself.  The     *)
(* active bin of the pool moves between any two steps.                     *)
(***************************************************************************)
EXTENDS Distribution

CONSTANTS Asks,         \* [x, y, count, upside, shape]: what an entry asks for
          ActiveBins, MaxShifts,
          IdSlippage,   \* id_slippage
          MaxValue,     \* max_native_lp_value_mnt
          MinFill,      \* min_position_size_usdt
          MinWorth      \* a bin worth less holds a residue: its burn yields nothing

(* Amounts are no larger than the unit of the shares, and no price of a bin *)
(* an entry may reach is so high that its inverse vanishes.                 *)
ASSUME AddAssumption ==
  /\ ActiveBins \subseteq Int /\ {MaxShifts, IdSlippage, MaxValue, MinFill, MinWorth} \subseteq Nat
  /\ Asks \subseteq [x: {n \in Nat : n <= One}, y: {n \in Nat : n <= One},
                    count: Nat \ {0}, upside: Int, shape: Shapes]
  /\ \A a \in Asks, b \in ActiveBins : \A d \in Range1(a.count, a.upside) :
        Price(b + d) \in {n \in Nat : 1 <= n /\ n <= Scale}

VARIABLES active,       \* the active bin of the pool
          shifts,
          stage,        \* "ask" "asked" "planned" "sent" "placed" "refused" "reverted"
          ask, spot,    \* the request, and the bin its price was read at
          amounts,      \* [x, y, native] of the call
          planned,      \* [active, dist] the call is made from
          held,         \* the bins that hold liquidity
          residue       \* the bins that hold less than that

addVars == <<active, shifts, stage, ask, spot, amounts, planned, held, residue>>

NoDist == [mode |-> "none", xUsed |-> 0, yUsed |-> 0, x |-> Zeros({0}), y |-> Zeros({0})]
Stages == {"ask", "asked", "planned", "sent", "placed", "refused", "reverted"}
Bins1 == Range1(ask.count, ask.upside)

AddInit ==
  /\ active \in ActiveBins /\ shifts = 0
  /\ stage = "ask" /\ ask \in Asks /\ spot = active
  /\ amounts = [x |-> 0, y |-> 0, native |-> 0]
  /\ planned = [active |-> active, dist |-> NoDist]
  /\ held = {} /\ residue = {}

ActiveShifts ==
  /\ shifts < MaxShifts /\ stage \in {"asked", "planned", "sent"}
  /\ active' \in {active - 1, active + 1} \cap ActiveBins
  /\ shifts' = shifts + 1
  /\ UNCHANGED <<stage, ask, spot, amounts, planned, held, residue>>

\* Broken on purpose: the limit holds for the amount and not for the value.
AskUncapped ==
  /\ stage = "ask"
  /\ amounts' = [x |-> Smaller(ask.x, MaxValue), y |-> ask.y, native |-> ask.x]
  /\ spot' = active
  /\ stage' = "asked"
  /\ UNCHANGED <<active, shifts, ask, planned, held, residue>>

\* X is WMNT and goes along as the value of the call, up to a limit.
Ask ==
  /\ stage = "ask"
  /\ LET x == Smaller(ask.x, MaxValue)
     IN  amounts' = [x |-> x, y |-> ask.y, native |-> x]
  /\ spot' = active
  /\ stage' = "asked"
  /\ UNCHANGED <<active, shifts, ask, planned, held, residue>>

Spread(prefer) ==
  DistributionOf(Bins1, active, amounts.x, amounts.y, ask.shape, prefer)

\* _validate_distribution_plan_fill, at the price read first
FillTooSmall(dist) ==
  /\ ask.x * Price(spot) + ask.y >= MinFill
  /\ dist.xUsed * Price(spot) + dist.yUsed < MinFill

Unused(f) == \A d \in DOMAIN f : f[d] = 0

\* "Zero out unused token amounts to match distributions."
Zeroed(dist) ==
  IF dist.mode = "x_only" /\ Unused(dist.y) THEN [amounts EXCEPT !.y = 0]
  ELSE IF dist.mode \in {"y_only", "y_only_onesided"} /\ Unused(dist.x)
  THEN [amounts EXCEPT !.x = 0, !.native = 0]
  ELSE amounts

PlanAdd ==
  /\ stage = "asked"
  /\ LET dist == Spread("none")
     IN  IF FillTooSmall(dist)
         THEN stage' = "refused" /\ UNCHANGED <<amounts, planned>>
         ELSE /\ planned' = [active |-> active, dist |-> dist]
              /\ amounts' = Zeroed(dist)
              /\ stage' = "planned"
  /\ UNCHANGED <<active, shifts, ask, spot, held, residue>>

\* Broken on purpose: the add goes out as it was planned.
LastLookSkipped ==
  /\ stage = "planned" /\ stage' = "sent"
  /\ UNCHANGED <<active, shifts, ask, spot, amounts, planned, held, residue>>

\* The last look at the active bin; the amounts are not zeroed again.
LastLook ==
  /\ stage = "planned"
  /\ LET dist == Spread(PreferAfterShift(planned.dist.mode, planned.active, active))
     IN  IF active = planned.active
         THEN stage' = "sent" /\ UNCHANGED planned
         ELSE IF FillTooSmall(dist)
         THEN stage' = "refused" /\ UNCHANGED planned
         ELSE planned' = [active |-> active, dist |-> dist] /\ stage' = "sent"
  /\ UNCHANGED <<active, shifts, ask, spot, amounts, held, residue>>

Matches == /\ amounts.x > 0 => ~Unused(planned.dist.x)
           /\ amounts.y > 0 => ~Unused(planned.dist.y)
           /\ amounts.native = amounts.x

\* The router puts the bins around the active bin it finds.  A bin gets its
\* share of the amounts that were sent, rounded down, which may be nothing.
Part(shares, amount, d) == (shares[d] * amount) \div One
Worth(d) == Price(active + d) * Part(planned.dist.x, amounts.x, d)
            + Part(planned.dist.y, amounts.y, d)

PlaceAdd ==
  /\ stage = "sent" /\ Matches
  /\ active - planned.active \in -IdSlippage..IdSlippage
  /\ held'    = {active + d : d \in {e \in Bins1 : Worth(e) > 0 /\ Worth(e) >= MinWorth}}
  /\ residue' = {active + d : d \in {e \in Bins1 : Worth(e) > 0 /\ Worth(e) < MinWorth}}
  /\ held' \cup residue' # {}
  /\ stage' = "placed"
  /\ UNCHANGED <<active, shifts, ask, spot, amounts, planned>>

\* The pair may refuse a bin that gets nothing, too.
RefuseAdd ==
  /\ stage = "sent"
  /\ \/ ~Matches
     \/ active - planned.active \notin -IdSlippage..IdSlippage
     \/ \E d \in Bins1 : Worth(d) = 0
  /\ stage' = "reverted"
  /\ UNCHANGED <<active, shifts, ask, spot, amounts, planned, held, residue>>

AddNext == ActiveShifts \/ Ask \/ PlanAdd \/ LastLook \/ PlaceAdd \/ RefuseAdd

AddSpec == AddInit /\ [][AddNext]_addVars

-----------------------------------------------------------------------------
TwoSided == Above(Bins1) # {} /\ Below(Bins1) # {}

(* However the active bin moves between the plan and the call, the router   *)
(* gets no amount without a share, and a value equal to the amount in MNT,  *)
(* for every range with bins on both sides: create_position zeroes unused   *)
(* amounts before the last look and not after it.                           *)
RouterAccepts == stage = "sent" /\ TwoSided => Matches

HandedOut(shares, amount) == (Sum1(shares) * amount) \div One

(* What goes to the router is what the check of the fill was told: the      *)
(* shares hand out the amounts the plan says it uses, X at the active bin   *)
(* and above, Y at it and below, and every bin gets a share.                *)
SharesFollowPlan ==
  stage = "sent" /\ planned.dist.mode # "sdk_spot" =>
    LET d == planned.dist
    IN  /\ \A b \in Bins1 : d.x[b] + d.y[b] > 0
        /\ \A b \in Bins1 : (d.x[b] > 0 => b >= 0) /\ (d.y[b] > 0 => b <= 0)
        /\ HandedOut(d.x, amounts.x) \in d.xUsed - 1 .. d.xUsed + Cardinality(Bins1)
        /\ HandedOut(d.y, amounts.y) \in d.yUsed - 1 .. d.yUsed + Cardinality(Bins1)
=============================================================================
