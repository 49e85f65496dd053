--------------------------- MODULE CapitalProofs ---------------------------
(***************************************************************************)
(* What holds of the wallet for every setting, every wallet it starts      *)
(* with, every set of prices and any number of cycles and moves.           *)
(***************************************************************************)
EXTENDS Capital, TLAPS

Wallet == [native : Nat, wmnt : Nat, usdt : Nat]
PlanType == [action : Actions, reason : Reasons, trade : Nat, amountIn : Nat, wrap : Nat]

-----------------------------------------------------------------------------
(* Arithmetic of amounts and shares. *)
LEMMA DivisionType ==
    ASSUME NEW a \in Nat, NEW b \in Nat \ {0}
    PROVE  /\ a \div b \in Nat
           /\ (a \div b) * b <= a
           /\ a < (a \div b) * b + b
OBVIOUS

LEMMA DivisionBound ==
    ASSUME NEW a \in Nat, NEW b \in Nat \ {0}, NEW k \in Nat, a <= k * b
    PROVE  a \div b <= k
OBVIOUS

LEMMA ProductType ==
    ASSUME NEW a \in Nat, NEW b \in Nat
    PROVE  a * b \in Nat
OBVIOUS

LEMMA ProductMonotone ==
    ASSUME NEW a \in Nat, NEW b \in Nat, NEW c \in Nat, a <= b
    PROVE  a * c <= b * c
<1>1. PICK d \in Nat : b = a + d
  <2>1. b - a \in Nat /\ b = a + (b - a)
    OBVIOUS
  <2> QED BY <2>1
<1>2. b * c = a * c + d * c
  BY <1>1
<1>3. d * c \in Nat /\ a * c \in Nat
  BY ProductType
<1> QED BY <1>2, <1>3

LEMMA ProductCancel ==
    ASSUME NEW a \in Int, NEW b \in Int, NEW c \in Nat \ {0}, c * a <= c * b
    PROVE  a <= b
<1> SUFFICES ASSUME a >= b + 1 PROVE FALSE
  OBVIOUS
<1>1. PICK d \in Nat : a = b + 1 + d
  <2>1. a - b - 1 \in Nat /\ a = b + 1 + (a - b - 1)
    OBVIOUS
  <2> QED BY <2>1
<1>2. c * a = c * b + c + c * d
  BY <1>1
<1>3. c * d \in Nat /\ c * b \in Int
  BY ProductType
<1> QED BY <1>2, <1>3

LEMMA PartType ==
    ASSUME NEW bps \in 0..Bps, NEW n \in Nat
    PROVE  PartOf(bps, n) \in Nat /\ PartOf(bps, n) <= n
<1>1. bps \in Nat /\ bps <= 10000 /\ bps * n <= 10000 * n
  BY ProductMonotone DEF Bps
<1>2. n * bps \in Nat /\ n * bps <= n * 10000
  BY <1>1, ProductType
<1> DEFINE x == n * bps
<1>3. x \in Nat /\ x <= n * 10000
  BY <1>2
<1> HIDE DEF x
<1>4. x \div 10000 \in Nat /\ x \div 10000 <= n
  BY <1>3
<1> QED
  BY <1>4 DEF PartOf, Bps, x

(* serialize_decimal is off by half a grain at most, either way. *)
LEMMA SerializedBounds ==
    ASSUME NEW a \in Nat, NEW b \in Nat \ {0}, NEW r, r = Serialized(a, b)
    PROVE  /\ r \in Nat
           /\ 2 * (b * r) <= 2 * a + b * Grain
           /\ 2 * a <= 2 * (b * r) + b * Grain
<1> DEFINE step == b * Grain
           n == a \div step
           m == a % step
<1>1. Grain \in Nat \ {0} /\ step \in Nat \ {0}
  <2>1. Grain \in Nat \ {0}
    BY BalancesAssumption
  <2>2. step \in Nat
    BY <2>1, ProductType
  <2>3. b * 1 <= b * Grain
    <3>1. 1 * b <= Grain * b
      BY <2>1, ProductMonotone
    <3>2. 1 * b = b * 1 /\ Grain * b = b * Grain
      BY <2>1
    <3> QED BY <3>1, <3>2
  <2> QED
    BY <2>1, <2>2, <2>3
<1> DEFINE up == ~(2 * m < step \/ (2 * m = step /\ n % 2 = 0))
<1>2. r = Grain * (IF up THEN n + 1 ELSE n)
  BY DEF Serialized
<1>3. /\ up => 2 * m >= step
      /\ ~up => 2 * m <= step
  <2>1. m \in Int
    <3> HIDE DEF step
    <3> QED BY <1>1
  <2> HIDE DEF m, step, n
  <2> QED BY <1>1, <2>1
<1> HIDE DEF up
<1> DEFINE k == step * n
<1>4. n \in Nat /\ m \in Nat /\ m < step /\ a = k + m
  <2> HIDE DEF step
  <2> QED BY <1>1
<1>5. k \in Nat
  <2> HIDE DEF step, n
  <2> QED BY <1>1, <1>4, ProductType
<1> HIDE DEF n, m
<1>6. CASE up
  <2>1. r = Grain * (n + 1)
    BY <1>2, <1>6
  <2>2. b * r = k + step
    BY <2>1, <1>1, <1>4
  <2>3. r \in Nat
    BY <2>1, <1>1, <1>4, ProductType
  <2> HIDE DEF k, step
  <2>4. 2 * (b * r) <= 2 * a + step /\ 2 * a <= 2 * (b * r) + step
    BY <2>2, <1>1, <1>3, <1>4, <1>5, <1>6
  <2> QED
    BY <2>3, <2>4 DEF step
<1>7. CASE ~up
  <2>1. r = Grain * n
    BY <1>2, <1>7
  <2>2. b * r = k
    BY <2>1, <1>1, <1>4
  <2>3. r \in Nat
    BY <2>1, <1>1, <1>4, ProductType
  <2> HIDE DEF k, step
  <2>4. 2 * (b * r) <= 2 * a + step /\ 2 * a <= 2 * (b * r) + step
    BY <2>2, <1>1, <1>3, <1>4, <1>5, <1>7
  <2> QED
    BY <2>3, <2>4 DEF step
<1> QED
  BY <1>6, <1>7

-----------------------------------------------------------------------------
(* The value of a wallet, and the plan of a rebalance. *)
LEMMA ValueType ==
    ASSUME NEW w \in Wallet, NEW p \in Nat \ {0}
    PROVE  /\ Mnt(w) \in Nat /\ MntValue(w, p) \in Nat /\ TotalValue(w, p) \in Nat
           /\ Mnt(w) = w.native + w.wmnt
           /\ MntValue(w, p) = Mnt(w) * p
           /\ TotalValue(w, p) = MntValue(w, p) + w.usdt
           /\ w.native \in Nat /\ w.wmnt \in Nat /\ w.usdt \in Nat
<1>1. w.native \in Nat /\ w.wmnt \in Nat /\ w.usdt \in Nat
  BY DEF Wallet
<1>2. Mnt(w) \in Nat
  BY <1>1 DEF Mnt
<1> QED
  BY <1>1, <1>2, ProductType DEF Mnt, MntValue, TotalValue

(* A share of the wallet is traded that the wallet holds, to a grain: a sale *)
(* is of MNT there is, wrapped or to be wrapped, a purchase of USDT there is. *)
LEMMA SaleIsCovered ==
    ASSUME NEW native \in Nat, NEW wmnt \in Nat, NEW d \in Nat \ {0}, NEW excess \in Nat,
           excess <= (native + wmnt) * d,
           NEW amount, amount = Serialized(excess, d),
           NEW wrap, wrap = Serialized(Larger(0, excess - wmnt * d), d)
    PROVE  /\ amount \in Nat /\ wrap \in Nat
           /\ 2 * wrap <= 2 * native + Grain
           /\ amount <= wmnt + wrap + Grain
<1> DEFINE short == Larger(0, excess - wmnt * d)
           nd == d * native
           wd == d * wmnt
           gd == d * Grain
           ad == d * amount
           rd == d * wrap
<1>1. Grain \in Nat /\ nd \in Nat /\ wd \in Nat /\ gd \in Nat /\ wmnt * d = wd
  BY BalancesAssumption, ProductType
<1>2. excess <= nd + wd
  BY <1>1
<1>3. /\ short \in Nat /\ short <= nd
      /\ excess <= wd + short
  <2> HIDE DEF nd, wd
  <2> QED BY <1>1, <1>2 DEF Larger
<1>4. amount \in Nat /\ 2 * ad <= 2 * excess + gd
  BY SerializedBounds
<1>5. wrap \in Nat /\ 2 * rd <= 2 * short + gd /\ 2 * short <= 2 * rd + gd
  <2> HIDE DEF short, rd, gd
  <2> QED BY <1>3, SerializedBounds DEF short, rd, gd
<1>6. ad \in Nat /\ rd \in Nat
  BY <1>4, <1>5, ProductType
<1>7. 2 * rd <= 2 * nd + gd /\ 2 * ad <= 2 * wd + 2 * rd + 2 * gd
  <2> HIDE DEF short, nd, wd, gd, ad, rd
  <2> QED BY <1>1, <1>3, <1>4, <1>5, <1>6
<1>8. 2 * wrap <= 2 * native + Grain
  <2>1. d * (2 * wrap) = 2 * rd /\ d * (2 * native + Grain) = 2 * nd + gd
    BY <1>1, <1>5
  <2>2. d * (2 * wrap) <= d * (2 * native + Grain)
    BY <1>7, <2>1
  <2> QED
    BY <1>1, <1>5, <2>2, ProductCancel
<1>9. 2 * amount <= 2 * wmnt + 2 * wrap + 2 * Grain
  <2>1. /\ d * (2 * amount) = 2 * ad
        /\ d * (2 * wmnt + 2 * wrap + 2 * Grain) = 2 * wd + 2 * rd + 2 * gd
    BY <1>1, <1>4, <1>5
  <2>2. d * (2 * amount) <= d * (2 * wmnt + 2 * wrap + 2 * Grain)
    BY <1>7, <2>1
  <2> QED
    BY <1>1, <1>4, <1>5, <2>2, ProductCancel
<1> QED
  BY <1>1, <1>4, <1>5, <1>8, <1>9

LEMMA PlanIsCovered ==
    ASSUME NEW w \in Wallet, NEW p \in Nat \ {0}, NEW target \in 0..Bps,
           NEW tolerance \in Nat, NEW minTrade \in Nat, NEW q,
           q = Plan(w, p, target, tolerance, minTrade)
    PROVE  /\ q \in PlanType
           /\ q.action = "none" => q.wrap = 0 /\ q.amountIn = 0
           /\ q.action = "buy_mnt" => q.wrap = 0 /\ q.amountIn <= w.usdt
           /\ q.action = "sell_mnt" => /\ 2 * q.wrap <= 2 * w.native + Grain
                                       /\ q.amountIn <= w.wmnt + q.wrap + Grain
<1> DEFINE m == MntValue(w, p)
           t == TotalValue(w, p)
           excess == m * Bps - t * target
           trade == (IF excess > 0 THEN excess ELSE -excess) \div Bps
           sold == Serialized(excess, p * Bps)
           wrap == Serialized(Larger(0, excess - w.wmnt * (p * Bps)), p * Bps)
<1>1. /\ m \in Nat /\ t \in Nat /\ t = m + w.usdt
      /\ Mnt(w) \in Nat /\ m = Mnt(w) * p /\ Mnt(w) = w.native + w.wmnt
      /\ w.native \in Nat /\ w.wmnt \in Nat /\ w.usdt \in Nat
  BY ValueType
<1> HIDE DEF m, t
<1>2. excess \in Int /\ t * target \in Nat /\ t * target <= t * Bps
  <2>1. t * target \in Nat /\ t * target <= t * Bps
    <3>1. target \in Nat /\ target <= 10000
      BY DEF Bps
    <3>2. target * t <= 10000 * t
      BY <3>1, <1>1, ProductMonotone
    <3> QED BY <3>1, <3>2, <1>1, ProductType DEF Bps
  <2> QED BY <2>1, <1>1 DEF Bps
<1>3. trade \in Nat
  BY <1>2 DEF Bps
<1>4. excess > 0 => excess \in Nat /\ excess <= m * Bps
  <2> DEFINE x == t * target
             y == m * Bps
  <2>1. x \in Nat /\ y \in Nat /\ excess = y - x
    BY <1>1, <1>2 DEF Bps
  <2> HIDE DEF x, y, excess
  <2>2. excess > 0 => excess \in Nat /\ excess <= y
    BY <2>1
  <2> QED
    BY <2>2 DEF y
<1>5. ~(excess > 0) => trade <= w.usdt
  BY <1>1, <1>2 DEF Bps
<1>6. excess > 0 => /\ sold \in Nat /\ wrap \in Nat
                    /\ 2 * wrap <= 2 * w.native + Grain
                    /\ sold <= w.wmnt + wrap + Grain
  <2> SUFFICES ASSUME excess > 0
               PROVE  /\ sold \in Nat /\ wrap \in Nat
                      /\ 2 * wrap <= 2 * w.native + Grain
                      /\ sold <= w.wmnt + wrap + Grain
    OBVIOUS
  <2>1. p * Bps \in Nat \ {0}
    BY DEF Bps
  <2>2. m * Bps = (w.native + w.wmnt) * (p * Bps)
    <3>1. m = (w.native + w.wmnt) * p /\ Bps = 10000
      BY <1>1 DEF Bps
    <3>2. PICK k \in Nat : k = w.native + w.wmnt
      BY <1>1
    <3>3. (k * p) * 10000 = k * (p * 10000)
      OBVIOUS
    <3> QED
      BY <3>1, <3>2, <3>3
  <2>3. excess \in Nat /\ excess <= (w.native + w.wmnt) * (p * Bps)
    BY <1>4, <2>2
  <2> HIDE DEF excess
  <2> QED
    BY <1>1, <2>1, <2>3, SaleIsCovered
<1>8. \/ q = NoTrade("zero", 0)
      \/ q = NoTrade("band", 0)
      \/ q = NoTrade("small", trade)
      \/ excess > 0 /\ q = [action |-> "sell_mnt", reason |-> "trade", trade |-> trade,
                            amountIn |-> sold, wrap |-> wrap]
      \/ ~(excess > 0) /\ q = [action |-> "buy_mnt", reason |-> "trade", trade |-> trade,
                               amountIn |-> trade, wrap |-> 0]
  BY DEF Plan, Excess, m, t
<1> HIDE DEF excess, trade, sold, wrap
<1>9. CASE \/ q = NoTrade("zero", 0)
           \/ q = NoTrade("band", 0)
           \/ q = NoTrade("small", trade)
  BY <1>9, <1>3 DEF NoTrade, PlanType, Actions, Reasons
<1>10. CASE excess > 0 /\ q = [action |-> "sell_mnt", reason |-> "trade", trade |-> trade,
                               amountIn |-> sold, wrap |-> wrap]
  <2>1. q \in PlanType
    BY <1>10, <1>3, <1>6 DEF PlanType, Actions, Reasons
  <2>2. q.action = "sell_mnt" /\ q.amountIn = sold /\ q.wrap = wrap
    BY <1>10
  <2> QED
    BY <2>1, <2>2, <1>6, <1>10
<1>11. CASE ~(excess > 0) /\ q = [action |-> "buy_mnt", reason |-> "trade", trade |-> trade,
                                  amountIn |-> trade, wrap |-> 0]
  BY <1>11, <1>1, <1>3, <1>5 DEF PlanType, Actions, Reasons
<1> QED
  BY <1>8, <1>9, <1>10, <1>11

-----------------------------------------------------------------------------
(* The types by name, so that a proof opens only those it needs. *)
AllocType == [mnt : Nat, usdt : Nat, ok : BOOLEAN]
SeenType  == [total : Nat, weight : 0..Bps, mnt : Nat, usdt : Nat, price : Prices \cup {1}]
SwapType  == [by : {"none", "policy", "wide"}, side : Sides, band : Bands, forced : BOOLEAN]
CycleType == [regime : Regimes, dir : Directions, prep : BOOLEAN, strategy : {"wide", "narrow"},
              market : Scales \cup {"neutral"}, traded : SUBSET (Sides \X Bands)]
BudgetRec == [mnt : Nat, usdt : Nat, price : Prices \cup {0}]
SinceType == [Sides -> 0..Cooldown]

Typed ==
  /\ wallet \in Wallet
  /\ lp \in Amounts
  /\ budget \in BudgetRec
  /\ alloc \in AllocType
  /\ price \in Prices
  /\ moves \in 0..MaxMoves
  /\ round \in 0..MaxRounds
  /\ pc \in Steps
  /\ need \in Nat
  /\ seen \in SeenType
  /\ plan \in PlanType
  /\ swap \in SwapType
  /\ cycle \in CycleType
  /\ since \in SinceType

LEMMA TypedIsTypeOK == Typed => TypeOK
BY DEF Typed, TypeOK, Wallet, AllocType, SeenType, PlanType, SwapType, CycleType, SinceType, BudgetRec

LEMMA SettingsType ==
  /\ GasReserve \in Nat /\ Headroom \in Nat /\ MinPosition \in Nat /\ MinBalance \in Nat
  /\ Minimum \in Nat /\ MinSwap \in Nat /\ MaxSwap \in Nat /\ Cooldown \in Nat
  /\ MaxSwapBps \in 0..Bps /\ MaxNative \in Nat
  /\ MaxMoves \in Nat /\ MaxRounds \in Nat /\ Grain \in Nat /\ Whole \in Nat
  /\ \A p \in Prices : p \in Nat \ {0}
BY BalancesAssumption, PolicyAssumption, CapitalAssumption DEF Minimum

LEMMA GateType ==
  /\ Gate.target \in 0..Bps /\ Gate.tolerance \in Nat /\ Gate.minTrade \in Nat
  /\ Gate.maxSwap \in Nat /\ Gate.viable \in Nat
BY CapitalAssumption

(* What the variables go back to at the end of a cycle. *)
LEMMA RestType ==
  /\ Calm \in CycleType /\ NoSight \in SeenType /\ NoPlan \in PlanType /\ NoSwap \in SwapType
  /\ Empty \in Amounts /\ NotViable \in AllocType /\ NoBudget \in BudgetRec
<1>1. Calm \in CycleType
  BY DEF Calm, CycleType, Regimes, Directions
<1>2. NoSight \in SeenType
  BY DEF NoSight, SeenType, Bps
<1>3. NoPlan \in PlanType
  BY DEF NoPlan, NoTrade, PlanType, Actions, Reasons
<1>4. NoSwap \in SwapType
  BY DEF NoSwap, SwapType, Sides, Bands
<1>5. Empty \in Amounts /\ NotViable \in AllocType /\ NoBudget \in BudgetRec
  BY DEF Empty, Amounts, NotViable, AllocType, NoBudget, BudgetRec
<1> QED
  BY <1>1, <1>2, <1>3, <1>4, <1>5

(* The steps of the cycle change one thing it knows at a time. *)
LEMMA CycleChanges ==
  ASSUME NEW c \in CycleType
  PROVE  /\ \A dir \in Directions : [c EXCEPT !.dir = dir] \in CycleType
         /\ \A m \in Scales : [c EXCEPT !.market = m] \in CycleType
         /\ \A m \in Scales, s \in {"wide", "narrow"}, b \in BOOLEAN :
               [c EXCEPT !.market = m, !.strategy = s, !.prep = b] \in CycleType
         /\ \A b \in BOOLEAN : [c EXCEPT !.prep = b] \in CycleType
         /\ \A t \in Sides \X Bands, b \in BOOLEAN :
               [c EXCEPT !.prep = b, !.traded = @ \cup {t}] \in CycleType
         /\ c.dir \in Directions /\ c.regime \in Regimes /\ c.prep \in BOOLEAN
<1>1. c.traded \in SUBSET (Sides \X Bands)
  BY DEF CycleType
<1> QED
  BY <1>1 DEF CycleType

(* Wrapping and swapping move value and never take more than there is. *)
LEMMA UnwrapType ==
  ASSUME NEW w \in Wallet, NEW a \in Nat, a <= w.wmnt, NEW v, v = Unwrapped(w, a)
  PROVE  /\ v \in Wallet
         /\ v.native = w.native + a
         /\ v.usdt = w.usdt
         /\ Mnt(v) = Mnt(w)
<1>1. w.native \in Nat /\ w.wmnt \in Nat /\ w.usdt \in Nat
  BY DEF Wallet
<1>2. v.native = w.native + a
  BY DEF Unwrapped, Wallet
<1>3. v.wmnt = w.wmnt - a
  BY DEF Unwrapped, Wallet
<1>4. v.usdt = w.usdt
  BY DEF Unwrapped, Wallet
<1>5. v \in Wallet
  <2>1. PICK x \in Nat, y \in Nat : x = w.native + a /\ y = w.wmnt - a
    BY <1>1
  <2>2. v = [w EXCEPT !.native = x, !.wmnt = y]
    BY <2>1 DEF Unwrapped, Wallet
  <2> QED BY <2>1, <2>2 DEF Wallet
<1> QED
  BY <1>1, <1>2, <1>3, <1>4, <1>5 DEF Mnt

LEMMA WrapType ==
  ASSUME NEW w \in Wallet, NEW a \in Nat, a <= w.native, NEW v, v = Wrapped(w, a)
  PROVE  /\ v \in Wallet
         /\ v.wmnt = w.wmnt + a
         /\ v.usdt = w.usdt
<1>1. w.native \in Nat /\ w.wmnt \in Nat /\ w.usdt \in Nat
  BY DEF Wallet
<1>2. v.wmnt = w.wmnt + a
  BY DEF Wrapped, Wallet
<1>3. v.usdt = w.usdt
  BY DEF Wrapped, Wallet
<1>4. v \in Wallet
  <2>1. PICK x \in Nat, y \in Nat : x = w.native - a /\ y = w.wmnt + a
    BY <1>1
  <2>2. v = [w EXCEPT !.native = x, !.wmnt = y]
    BY <2>1 DEF Wrapped, Wallet
  <2> QED BY <2>1, <2>2 DEF Wallet
<1> QED
  BY <1>2, <1>3, <1>4

LEMMA BoughtType ==
  ASSUME NEW w \in Wallet, NEW a \in Nat, NEW p \in Nat \ {0}, a <= w.usdt,
         NEW v, v = Bought(w, a, p)
  PROVE  v \in Wallet /\ v.native = w.native
<1>1. w.native \in Nat /\ w.wmnt \in Nat /\ w.usdt \in Nat /\ a \div p \in Nat
  BY DivisionType DEF Wallet
<1>2. v.native = w.native
  BY DEF Bought, Wallet
<1>3. PICK x \in Nat, y \in Nat : x = w.usdt - a /\ y = w.wmnt + a \div p
  BY <1>1
<1>4. v = [w EXCEPT !.usdt = x, !.wmnt = y]
  BY <1>3 DEF Bought, Wallet
<1> QED BY <1>2, <1>3, <1>4 DEF Wallet

LEMMA SoldType ==
  ASSUME NEW w \in Wallet, NEW a \in Nat, NEW p \in Nat \ {0}, a <= w.wmnt,
         NEW v, v = Sold(w, a, p)
  PROVE  v \in Wallet
<1>1. w.native \in Nat /\ w.wmnt \in Nat /\ w.usdt \in Nat /\ a * p \in Nat
  BY ProductType DEF Wallet
<1>2. PICK x \in Nat, y \in Nat : x = w.wmnt - a /\ y = w.usdt + a * p
  BY <1>1
<1>3. v = [w EXCEPT !.wmnt = x, !.usdt = y]
  BY <1>2 DEF Sold, Wallet
<1> QED BY <1>2, <1>3 DEF Wallet

LEMMA ShareIsNumber ==
  ASSUME NEW share \in 0..Bps
  PROVE  share \in Nat /\ share <= 10000 /\ Bps = 10000
<1>1. Bps = 10000
  BY DEF Bps
<1> QED
  BY <1>1

LEMMA NumberIsShare ==
  ASSUME NEW share \in Nat, share <= 10000
  PROVE  share \in 0..Bps
<1>1. Bps \in Nat /\ share <= Bps
  BY DEF Bps
<1> QED
  BY ONLY <1>1, share \in Nat

LEMMA SightType ==
  ASSUME NEW w \in Wallet, wallet = w, price \in Nat \ {0}, price \in Prices
  PROVE  Sight \in SeenType
<1> DEFINE m == MntValue(wallet, price)
           t == TotalValue(wallet, price)
           weight == IF t = 0 THEN 0 ELSE (m * Bps) \div t
<1>1. /\ m \in Nat /\ t \in Nat /\ m <= t /\ wallet.usdt \in Nat
  BY ValueType
<1>2. weight \in 0..Bps
  <2> HIDE DEF m, t
  <2>1. m * 10000 \in Nat /\ m * 10000 <= 10000 * t
    BY <1>1
  <2>2. t # 0 => (m * 10000) \div t \in Nat /\ (m * 10000) \div t <= 10000
    BY <1>1, <2>1, DivisionBound, DivisionType
  <2>3. CASE t = 0
    BY <2>3 DEF Bps
  <2>4. CASE t # 0
    <3> DEFINE q == (m * 10000) \div t
    <3>1. weight = q
      BY <2>4 DEF Bps
    <3>2. q \in Nat /\ q <= 10000
      BY <2>2, <2>4
    <3>3. q \in 0..Bps
      <4> HIDE DEF q
      <4> QED
        BY <3>2, NumberIsShare
    <3> QED
      BY <3>1, <3>3
  <2> QED
    BY <2>3, <2>4
<1>3. Sight = [total |-> t, weight |-> weight, mnt |-> m, usdt |-> wallet.usdt, price |-> price]
  BY DEF Sight
<1> HIDE DEF m, t, weight
<1> QED
  BY <1>1, <1>2, <1>3 DEF SeenType

LEMMA TargetType ==
  ASSUME NEW dir \in Directions, NEW regime \in Regimes
  PROVE  TargetRatio(dir, regime) \in 0..Bps
<1>1. BaseTarget[dir] \in 0..Bps
  BY PolicyAssumption
<1>2. CASE dir = "neutral" \/ ~RegimeAware \/ regime = "NONE"
  BY <1>1, <1>2 DEF TargetRatio
<1>3. CASE dir = "down" /\ RegimeAware /\ regime # "NONE"
  BY <1>3 DEF TargetRatio, Regimes, Bps
<1>4. CASE dir = "up" /\ RegimeAware /\ regime # "NONE"
  BY <1>4 DEF TargetRatio, Regimes, Bps
<1> QED
  BY <1>2, <1>3, <1>4 DEF Directions

LEMMA CappedType ==
  ASSUME NEW weight \in 0..Bps, NEW total \in Nat \ {0}, NEW target \in 0..Bps, NEW side \in Sides
  PROVE  CappedRatio(weight, total, target, side) \in 0..Bps
<1> DEFINE delta == (MaxSwap * Bps) \div total
<1>1. delta \in Nat
  <2> DEFINE x == MaxSwap * Bps
  <2>1. MaxSwap \in Nat
    BY SettingsType
  <2>2. x \in Nat
    BY ONLY <2>1 DEF Bps
  <2> HIDE DEF x
  <2>3. x \div total \in Nat
    BY <2>2, DivisionType
  <2> QED
    BY <2>3 DEF x
<1>2. CappedRatio(weight, total, target, side) =
        IF side = "buy" THEN Least(target, weight + delta) ELSE Larger(target, weight - delta)
  BY DEF CappedRatio
<1> HIDE DEF delta
<1>3. /\ weight \in Nat /\ weight <= 10000
      /\ target \in Nat /\ target <= 10000
  BY ShareIsNumber
<1>4. /\ CappedRatio(weight, total, target, side) \in Nat
      /\ CappedRatio(weight, total, target, side) <= 10000
  BY ONLY <1>1, <1>2, <1>3 DEF Least, Larger
<1> QED
  BY <1>4, NumberIsShare

LEMMA BudgetType ==
  ASSUME NEW w \in Wallet, NEW p \in Prices \cup {0}, NEW b, b = Budget(w, p)
  PROVE  /\ b \in BudgetRec
         /\ b.usdt <= w.usdt
         /\ b.mnt > 0 => b.mnt + GasReserve + Headroom <= Mnt(w)
<1>1. w.usdt \in Nat /\ Mnt(w) \in Nat
  BY DEF Wallet, Mnt
<1>2. /\ PartOf(BudgetBps, Mnt(w)) \in Nat
      /\ PartOf(BudgetBps, w.usdt) \in Nat /\ PartOf(BudgetBps, w.usdt) <= w.usdt
  BY <1>1, PartType, BalancesAssumption
<1> QED
  BY <1>1, <1>2, SettingsType DEF Budget, BudgetRec, Least, Larger

LEMMA TargetBpsType ==
  ASSUME NEW strategy, NEW market
  PROVE  TargetBps(strategy, market) \in 0..Bps
<1>1. PICK base \in {Bps, 9000} :
        \/ TargetBps(strategy, market) = PartOf(3300, base)
        \/ TargetBps(strategy, market) = base
        \/ TargetBps(strategy, market) = PartOf(7500, base)
  <2> DEFINE base == IF strategy = "wide" THEN Bps ELSE 9000
  <2>1. base \in {Bps, 9000}
    OBVIOUS
  <2>2. \/ TargetBps(strategy, market) = PartOf(3300, base)
        \/ TargetBps(strategy, market) = base
        \/ TargetBps(strategy, market) = PartOf(7500, base)
    <3>1. CASE market = "overbought"
      BY <3>1 DEF TargetBps
    <3>2. CASE market = "oversold"
      BY <3>2 DEF TargetBps
    <3>3. CASE market \notin {"overbought", "oversold"}
      BY <3>3 DEF TargetBps
    <3> QED
      BY <3>1, <3>2, <3>3
  <2> QED
    BY <2>1, <2>2
<1>2. /\ PartOf(3300, base) \in Nat /\ PartOf(3300, base) <= Bps
      /\ PartOf(7500, base) \in Nat /\ PartOf(7500, base) <= Bps
      /\ base \in Nat /\ base <= Bps /\ Bps \in Nat
  BY DEF PartOf, Bps
<1> QED
  BY <1>1, <1>2

(* What is allotted stays within the budget, token by token. *)
LEMMA AllotType ==
  ASSUME budget \in BudgetRec, price \in Nat \ {0}, NEW extra \in Nat
  PROVE  /\ Allot(extra) \in AllocType
         /\ Allot(extra).mnt <= budget.mnt
         /\ Allot(extra).usdt <= budget.usdt
<1> DEFINE a == Allocation(budget, price, TargetBps(cycle.strategy, cycle.market))
           mnt == PartOf(SafetyBps, budget.mnt)
           usdt == PartOf(SafetyBps, budget.usdt)
           goal == PartOf(TargetBps(cycle.strategy, cycle.market), mnt * price + usdt)
           part == goal \div price
<1>1. budget.mnt \in Nat /\ budget.usdt \in Nat
  BY DEF BudgetRec
<1>2. /\ mnt \in Nat /\ mnt <= budget.mnt
      /\ usdt \in Nat /\ usdt <= budget.usdt
  BY <1>1, PartType, BalancesAssumption
<1>3. goal \in Nat
  <2> HIDE DEF mnt, usdt
  <2>1. mnt * price + usdt \in Nat
    BY <1>2, ProductType
  <2> QED BY <2>1, PartType, TargetBpsType
<1>4. part \in Nat
  <2> HIDE DEF goal
  <2> QED BY <1>3, DivisionType
<1>5. a = IF goal < MinPosition THEN NotViable
          ELSE [mnt |-> Least(mnt, part), usdt |-> Least(usdt, goal), ok |-> TRUE]
  BY DEF Allocation
<1> HIDE DEF mnt, usdt, goal, part
<1>6. /\ a \in AllocType /\ a.mnt <= budget.mnt /\ a.usdt <= budget.usdt
      /\ a.mnt \in Nat /\ a.usdt \in Nat
  <2>1. CASE goal < MinPosition
    <3>1. a = NotViable
      BY <2>1, <1>5
    <3> HIDE DEF a
    <3> QED
      BY <3>1, <1>1 DEF NotViable, AllocType
  <2>2. CASE ~(goal < MinPosition)
    <3>1. Least(mnt, part) \in Nat /\ Least(mnt, part) <= mnt /\ Least(usdt, goal) \in Nat /\ Least(usdt, goal) <= usdt
      BY <1>2, <1>3, <1>4 DEF Least
    <3>2. PICK x \in Nat, y \in Nat : /\ x = Least(mnt, part) /\ y = Least(usdt, goal)
                                     /\ x <= budget.mnt /\ y <= budget.usdt
      BY <3>1, <1>1, <1>2
    <3>3. a = [mnt |-> x, usdt |-> y, ok |-> TRUE]
      BY <2>2, <3>2, <1>5
    <3> HIDE DEF a
    <3> QED
      BY <3>2, <3>3 DEF AllocType
  <2> QED BY <2>1, <2>2
<1> HIDE DEF a
<1>7. Allot(extra) = AfterReserve(a, budget, extra)
  BY DEF Allot, a
<1>8. Larger(0, a.mnt - extra) \in Nat /\ Larger(0, a.mnt - extra) <= a.mnt
  BY <1>6 DEF Larger
<1>9. \/ Allot(extra) = a
      \/ Allot(extra) = NotViable
      \/ Allot(extra) = [a EXCEPT !.mnt = Larger(0, a.mnt - extra)]
  <2>1. a.ok \in BOOLEAN
    BY <1>6 DEF AllocType
  <2> QED
    BY <1>7, <2>1 DEF AfterReserve
<1>10. CASE Allot(extra) = a
  BY <1>6, <1>10
<1>11. CASE Allot(extra) = NotViable
  BY <1>1, <1>11 DEF NotViable, AllocType
<1>12. CASE Allot(extra) = [a EXCEPT !.mnt = Larger(0, a.mnt - extra)]
  <2>1. PICK x \in Nat : x = Larger(0, a.mnt - extra) /\ x <= a.mnt
    BY <1>8
  <2>2. Allot(extra) = [a EXCEPT !.mnt = x]
    BY <2>1, <1>12
  <2>3. Allot(extra) \in AllocType
    BY <2>2, <1>6 DEF AllocType
  <2>4. Allot(extra).mnt = x /\ Allot(extra).usdt = a.usdt
    BY <2>2, <1>6 DEF AllocType
  <2> QED
    BY <2>1, <2>3, <2>4, <1>1, <1>6
<1> QED
  BY <1>9, <1>10, <1>11, <1>12

LEMMA HeadroomType ==
  ASSUME NEW w \in Wallet, NEW value \in Nat, NEW v, v = WithHeadroom(w, value)
  PROVE  v \in Wallet /\ Mnt(v) = Mnt(w) /\ v.usdt = w.usdt
<1> DEFINE short == value + GasReserve + Headroom - w.native
<1>1. short \in Int
  BY SettingsType DEF Wallet
<1>2. v = IF short > 0 /\ w.wmnt >= short THEN Unwrapped(w, short) ELSE w
  BY DEF WithHeadroom
<1> HIDE DEF short
<1>3. CASE short > 0 /\ w.wmnt >= short
  <2>1. short \in Nat /\ short <= w.wmnt
    BY <1>1, <1>3 DEF Wallet
  <2> QED
    BY <2>1, <1>2, <1>3, UnwrapType
<1>4. CASE ~(short > 0 /\ w.wmnt >= short)
  BY <1>2, <1>4
<1> QED BY <1>3, <1>4

-----------------------------------------------------------------------------
(* The invariant of the money.  A plan is made from the wallet as it is and  *)
(* carried out against it: between the two nothing but the price changes, so *)
(* a plan covered to a grain stays so, through the wrap to the swap.  What the     *)
(* guard still needs never exceeds what is missing to twice the minimum.     *)
(* The budget is read again after a swap: when the entry looks at it, the    *)
(* reserve and the headroom are still outside of it.                         *)
Covered(p) ==
  /\ p.action = "none" => p.wrap = 0 /\ p.amountIn = 0
  /\ p.action = "buy_mnt" => p.wrap = 0 /\ p.amountIn <= wallet.usdt
  /\ p.action = "sell_mnt" => /\ 2 * p.wrap <= 2 * wallet.native + Grain
                              /\ p.amountIn <= wallet.wmnt + p.wrap + Grain

InReach ==
  /\ plan.action = "sell_mnt" => plan.amountIn <= wallet.wmnt + Grain
  /\ plan.action = "buy_mnt" => plan.amountIn <= wallet.usdt

Spares(b) ==
  /\ b.usdt <= wallet.usdt
  /\ b.mnt > 0 => b.mnt + GasReserve + Headroom <= Mnt(wallet)

MoneyInv ==
  /\ Typed
  /\ pc \in {"topup", "topupSwap", "topupUnwrap"} => wallet.native + need <= 2 * Minimum
  /\ pc = "topupSwap" => plan.amountIn <= wallet.usdt
  /\ pc = "policyCap" => seen.total # 0
  /\ pc = "wrap" => plan.action = "sell_mnt" /\ Covered(plan)
  /\ pc = "swap" => plan.action # "none" /\ InReach
  /\ pc \in {"gate", "gatePlan", "gateForce", "allocate"} => Spares(budget)
  /\ pc \in {"add", "mint"} => Spares(alloc)

LEMMA PlanMade ==
  ASSUME wallet \in Wallet, price \in Nat \ {0}, NEW target \in 0..Bps,
         NEW tolerance \in Nat, NEW minTrade \in Nat,
         NEW p, p = Plan(wallet, price, target, tolerance, minTrade)
  PROVE  p \in PlanType /\ Covered(p)
BY PlanIsCovered DEF Covered

LEMMA MoneyInit == Init => MoneyInv
<1> SUFFICES ASSUME Init PROVE MoneyInv
  OBVIOUS
<1>1. wallet \in Wallet
  BY CapitalAssumption DEF Init, Wallet
<1>2. since \in SinceType
  BY SettingsType DEF Init, SinceType
<1>3. moves \in 0..MaxMoves /\ round \in 0..MaxRounds /\ need \in Nat /\ pc = "idle"
  BY SettingsType DEF Init
<1> QED
  BY <1>1, <1>2, <1>3, RestType DEF Init, MoneyInv, Typed, Steps

(* The end of a cycle leaves nothing to be kept but the wallet. *)
LEMMA EndCycleMoney ==
  ASSUME MoneyInv, EndCycle, wallet' \in Wallet, lp' \in Amounts
  PROVE  MoneyInv'
BY RestType DEF EndCycle, Goto, Keep, MoneyInv, Typed, Steps

(* Carrying a plan out starts with its wrap, if it has one. *)
LEMMA ExecuteMoney ==
  ASSUME MoneyInv, NEW p \in PlanType, p.action # "none", Covered(p), Execute(p),
         swap' \in SwapType, seen' \in SeenType, cycle' \in CycleType,
         UNCHANGED <<bank, need, budget, alloc, since>>, Keep
  PROVE  MoneyInv'
<1>1. p.wrap \in Nat /\ p.amountIn \in Nat /\ p.action \in Actions
  BY DEF PlanType
<1>2. plan' = p /\ wallet' = wallet /\ lp' = lp
  BY DEF Execute, bank
<1>3. wallet.native \in Nat /\ wallet.wmnt \in Nat /\ wallet.usdt \in Nat
  BY DEF MoneyInv, Typed, Wallet
<1>4. CASE p.wrap > 0
  <2>1. pc' = "wrap"
    BY <1>4 DEF Execute, Goto
  <2> QED
    BY <2>1, <1>1, <1>2, <1>4 DEF MoneyInv, Typed, Steps, Keep, Covered, Actions
<1>5. CASE ~(p.wrap > 0)
  <2>1. pc' = "swap" /\ p.wrap = 0
    BY <1>1, <1>5 DEF Execute, Goto
  <2>2. InReach'
    BY <2>1, <1>1, <1>2, <1>3 DEF InReach, Covered, Actions
  <2> QED
    BY <2>1, <2>2, <1>2 DEF MoneyInv, Typed, Steps, Keep
<1> QED
  BY <1>4, <1>5

(* What the invariant says of the state before a step, ready to be cited. *)
LEMMA MoneyFacts ==
  ASSUME MoneyInv
  PROVE  /\ wallet \in Wallet /\ price \in Prices /\ price \in Nat \ {0}
         /\ wallet.native \in Nat /\ wallet.wmnt \in Nat /\ wallet.usdt \in Nat
         /\ cycle \in CycleType /\ seen \in SeenType /\ plan \in PlanType /\ swap \in SwapType
         /\ lp \in Amounts /\ budget \in BudgetRec /\ alloc \in AllocType /\ since \in SinceType
         /\ moves \in 0..MaxMoves /\ round \in 0..MaxRounds /\ pc \in Steps /\ need \in Nat
         /\ plan.amountIn \in Nat /\ plan.wrap \in Nat /\ plan.action \in Actions
         /\ swap.side \in Sides /\ swap.band \in Bands
<1>1. price \in Nat \ {0}
  BY SettingsType DEF MoneyInv, Typed
<1>2. wallet.native \in Nat /\ wallet.wmnt \in Nat /\ wallet.usdt \in Nat
  BY DEF MoneyInv, Typed, Wallet
<1>3. plan.amountIn \in Nat /\ plan.wrap \in Nat /\ plan.action \in Actions
  BY DEF MoneyInv, Typed, PlanType
<1>4. swap.side \in Sides /\ swap.band \in Bands
  BY DEF MoneyInv, Typed, SwapType
<1> QED
  BY <1>1, <1>2, <1>3, <1>4 DEF MoneyInv, Typed

(* The guard of the native balance: what it unwraps, it no longer misses. *)
LEMMA DeficitType ==
  ASSUME NEW w \in Wallet
  PROVE  /\ Deficit(w) \in Nat
         /\ Deficit(w) > 0 => w.native + Deficit(w) = 2 * Minimum
BY SettingsType DEF Deficit, Wallet

LEMMA TopUpCostType ==
  ASSUME NEW missing \in Nat, NEW p \in Nat
  PROVE  TopUpCost(missing, p) \in Nat
<1> DEFINE x == missing * p
<1>1. x \in Nat
  BY ProductType
<1> HIDE DEF x
<1>2. (x * 102 + 100 - 1) \div 100 \in Nat
  BY <1>1
<1> QED
  BY <1>2 DEF TopUpCost, CeilDiv, x

LEMMA GuardMoney ==
  ASSUME MoneyInv,
         GuardUnwrap \/ GuardNeedsSwap \/ TopUpPlan \/ TopUpSwap \/ TopUpUnwrap \/ GuardEnds
  PROVE  MoneyInv'
<1>1. CASE GuardUnwrap
  <2> DEFINE amount == Least(wallet.wmnt, Deficit(wallet))
  <2>1. /\ Deficit(wallet) \in Nat /\ wallet.native + Deficit(wallet) = 2 * Minimum
        /\ wallet' = Unwrapped(wallet, amount) /\ need' = Deficit(wallet) - amount
        /\ pc' \in {"look", "topup"}
    BY <1>1, MoneyFacts, DeficitType DEF GuardUnwrap, Goto
  <2>2. amount \in Nat /\ amount <= wallet.wmnt /\ amount <= Deficit(wallet)
    BY <2>1, MoneyFacts DEF Least
  <2> HIDE DEF amount
  <2>3. wallet' \in Wallet /\ wallet'.native = wallet.native + amount
    BY <2>1, <2>2, MoneyFacts, UnwrapType
  <2>4. need' \in Nat /\ wallet'.native + need' = 2 * Minimum
    BY <2>1, <2>2, <2>3, MoneyFacts
  <2> QED
    BY <1>1, <2>1, <2>3, <2>4, SettingsType DEF GuardUnwrap, Keep, MoneyInv, Typed, Steps
<1>2. CASE GuardNeedsSwap
  <2>1. /\ need' \in Nat /\ wallet.native + need' = 2 * Minimum
        /\ wallet' = wallet /\ pc' = "topup"
    BY <1>2, MoneyFacts, DeficitType DEF GuardNeedsSwap, Goto, bank
  <2> QED
    BY <1>2, <2>1, SettingsType DEF GuardNeedsSwap, Keep, bank, MoneyInv, Typed, Steps
<1>3. CASE TopUpPlan
  <2> DEFINE cost == Least(wallet.usdt, TopUpCost(need, price))
  <2>1. cost \in Nat /\ cost <= wallet.usdt
    <3>1. need \in Nat /\ price \in Nat /\ wallet.usdt \in Nat
      BY MoneyFacts
    <3>2. TopUpCost(need, price) \in Nat
      BY <3>1, TopUpCostType
    <3> QED
      BY <3>1, <3>2 DEF Least
  <2>2. plan' = [NoPlan EXCEPT !.action = "buy_mnt", !.amountIn = cost] /\ pc' = "topupSwap"
    BY <1>3 DEF TopUpPlan, Goto
  <2> HIDE DEF cost
  <2>3. plan' \in PlanType /\ plan'.amountIn = cost
    BY <2>1, <2>2, RestType DEF PlanType, Actions
  <2> QED
    BY <1>3, <2>1, <2>2, <2>3 DEF TopUpPlan, Keep, bank, MoneyInv, Typed, Steps
<1>4. CASE TopUpSwap
  <2>1. wallet' = Bought(wallet, plan.amountIn, price) /\ pc' = "topupUnwrap"
    BY <1>4 DEF TopUpSwap, Goto
  <2>2. plan.amountIn <= wallet.usdt
    BY <1>4 DEF TopUpSwap, MoneyInv
  <2>3. wallet' \in Wallet /\ wallet'.native = wallet.native
    BY <2>1, <2>2, MoneyFacts, BoughtType
  <2> QED
    BY <1>4, <2>1, <2>3 DEF TopUpSwap, Keep, work, MoneyInv, Typed, Steps
<1>5. CASE TopUpUnwrap
  <2> DEFINE amount == Least(wallet.wmnt, need)
  <2>1. amount \in Nat /\ amount <= wallet.wmnt
    BY MoneyFacts DEF Least
  <2>2. wallet' = Unwrapped(wallet, amount) /\ pc' = "look"
    BY <1>5 DEF TopUpUnwrap, Goto
  <2> HIDE DEF amount
  <2>3. wallet' \in Wallet
    BY <2>1, <2>2, MoneyFacts, UnwrapType
  <2> QED
    BY <1>5, <2>2, <2>3, RestType DEF TopUpUnwrap, Keep, MoneyInv, Typed, Steps
<1>6. CASE GuardEnds
  BY <1>6, RestType DEF GuardEnds, Goto, Keep, bank, MoneyInv, Typed, Steps
<1> QED
  BY <1>1, <1>2, <1>3, <1>4, <1>5, <1>6

(* From the decision of the cycle to the policy. *)
LEMMA RecoveredType ==
  ASSUME MoneyInv, NEW dir \in Directions
  PROVE  Recovered(dir) \in Amounts
<1> DEFINE value == lp.mnt * price + lp.usdt
<1>1. lp.mnt \in Nat /\ lp.usdt \in Nat
  BY MoneyFacts DEF Amounts
<1>2. value \in Nat
  <2>1. lp.mnt * price \in Nat
    BY <1>1, MoneyFacts, ProductType
  <2> QED BY <1>1, <2>1
<1> HIDE DEF value
<1>3. value \div price \in Nat
  BY <1>2, MoneyFacts, DivisionType
<1>4. \/ Recovered(dir) = [mnt |-> value \div price, usdt |-> 0]
      \/ Recovered(dir) = [mnt |-> 0, usdt |-> value]
      \/ Recovered(dir) = lp
  BY DEF Recovered, Directions, value
<1> QED
  BY <1>2, <1>3, <1>4, MoneyFacts DEF Amounts

LEMMA AllUnwrappedType ==
  ASSUME NEW w \in Wallet, NEW v \in UnwrapsAll(w)
  PROVE  v \in Wallet /\ Mnt(v) = Mnt(w) /\ v.usdt = w.usdt
<1>1. w.wmnt \in Nat
  BY DEF Wallet
<1>2. CASE v = w
  BY <1>2
<1>3. CASE v = Unwrapped(w, w.wmnt)
  BY <1>1, <1>3, UnwrapType
<1> QED
  BY <1>2, <1>3 DEF UnwrapsAll

LEMMA ExitMoney ==
  ASSUME MoneyInv, PriceMoves \/ StartCycle \/ Hold \/ Enter \/ ExitPosition \/ ExitUnwrap
  PROVE  MoneyInv'
<1>1. CASE PriceMoves
  <2>1. /\ price' \in Prices /\ moves' \in 0..MaxMoves /\ wallet' = wallet
    BY <1>1, MoneyFacts, SettingsType DEF PriceMoves, bank
  <2> QED
    BY <1>1, <2>1 DEF PriceMoves, bank, work, MoneyInv, Typed, Covered, Spares, InReach
<1>2. CASE StartCycle
  <2>1. round' \in 0..MaxRounds
    <3>1. round \in 0..MaxRounds /\ MaxRounds \in Nat
      BY MoneyFacts, SettingsType
    <3>2. round < MaxRounds /\ round' = round + 1
      BY <1>2 DEF StartCycle
    <3> QED
      BY <3>1, <3>2
  <2>2. cycle' \in CycleType
    BY <1>2, RestType DEF StartCycle, CycleType
  <2>3. since' \in SinceType
    <3>1. \A s \in Sides : Least(Cooldown, since[s] + 1) \in 0..Cooldown
      BY MoneyFacts, SettingsType DEF SinceType, Least
    <3> QED
      BY <1>2, <3>1 DEF StartCycle, SinceType
  <2> QED
    BY <1>2, <2>1, <2>2, <2>3 DEF StartCycle, Goto, bank, work, MoneyInv, Typed, Steps
<1>3. CASE Hold
  BY <1>3, EndCycleMoney, MoneyFacts DEF Hold, bank
<1>4. CASE Enter
  <2>1. cycle' \in CycleType
    <3>1. PICK m \in Scales, s \in {"wide", "narrow"} :
             cycle' = [cycle EXCEPT !.market = m, !.strategy = s, !.prep = (s = "wide")]
      BY <1>4 DEF Enter
    <3>2. (s = "wide") \in BOOLEAN
      OBVIOUS
    <3> QED
      BY <3>1, <3>2, MoneyFacts, CycleChanges
  <2> QED
    BY <1>4, <2>1 DEF Enter, Goto, Keep, bank, work, MoneyInv, Typed, Steps
<1>5. CASE ExitPosition
  <2>1. PICK dir \in Directions :
          /\ cycle' = [cycle EXCEPT !.dir = dir]
          /\ wallet' = [wallet EXCEPT !.wmnt = @ + Recovered(dir).mnt,
                                      !.usdt = @ + Recovered(dir).usdt]
    BY <1>5 DEF ExitPosition
  <2>2. cycle' \in CycleType
    BY <2>1, MoneyFacts, CycleChanges
  <2>3. wallet' \in Wallet
    <3>1. Recovered(dir).mnt \in Nat /\ Recovered(dir).usdt \in Nat
      BY RecoveredType DEF Amounts
    <3>2. PICK x \in Nat, y \in Nat : /\ x = wallet.wmnt + Recovered(dir).mnt
                                      /\ y = wallet.usdt + Recovered(dir).usdt
      BY <3>1, MoneyFacts
    <3>3. wallet' = [wallet EXCEPT !.wmnt = x, !.usdt = y]
      BY <2>1, <3>2, MoneyFacts DEF Wallet
    <3> QED BY <3>2, <3>3, MoneyFacts DEF Wallet
  <2> QED
    BY <1>5, <2>2, <2>3, RestType DEF ExitPosition, Goto, Keep, work, MoneyInv, Typed, Steps
<1>6. CASE ExitUnwrap
  <2>1. wallet' \in Wallet
    BY <1>6, MoneyFacts, AllUnwrappedType DEF ExitUnwrap
  <2> QED
    BY <1>6, <2>1 DEF ExitUnwrap, Goto, Keep, work, MoneyInv, Typed, Steps
<1> QED
  BY <1>1, <1>2, <1>3, <1>4, <1>5, <1>6

(* The policy ends with nothing in hand. *)
LEMMA PolicyEndsMoney ==
  ASSUME MoneyInv, NEW continues \in BOOLEAN, PolicyEnds(continues),
         UNCHANGED <<bank, need, budget, alloc, since>>, Keep
  PROVE  MoneyInv'
<1>1. cycle' \in CycleType
  BY MoneyFacts, CycleChanges DEF PolicyEnds
<1> QED
  BY <1>1, RestType DEF PolicyEnds, Goto, Keep, bank, MoneyInv, Typed, Steps

LEMMA TargetNow ==
  ASSUME MoneyInv
  PROVE  Target \in 0..Bps
BY MoneyFacts, CycleChanges, TargetType DEF Target

LEMMA PolicyMoney ==
  ASSUME MoneyInv,
         PolicyContinues \/ PolicyReads \/ PolicyPlans \/ PolicyCaps \/ PolicyFails
  PROVE  MoneyInv'
<1>1. CASE PolicyContinues
  BY <1>1, PolicyEndsMoney DEF PolicyContinues
<1>2. CASE PolicyReads
  <2>1. UNCHANGED <<bank, need, budget, alloc, since>> /\ Keep
    BY <1>2 DEF PolicyReads
  <2>2. \/ PolicyEnds(FALSE)
        \/ seen' = Sight /\ pc' = "policyPlan" /\ UNCHANGED <<cycle, plan, swap>>
    BY <1>2 DEF PolicyReads, Goto
  <2>3. CASE PolicyEnds(FALSE)
    BY <2>1, <2>3, PolicyEndsMoney
  <2>4. CASE seen' = Sight /\ pc' = "policyPlan" /\ UNCHANGED <<cycle, plan, swap>>
    <3>1. seen' \in SeenType
      BY <2>4, MoneyFacts, SightType
    <3> QED
      BY <2>1, <2>4, <3>1 DEF Keep, bank, MoneyInv, Typed, Steps
  <2> QED
    BY <2>2, <2>3, <2>4
<1>3. CASE PolicyPlans
  <2> DEFINE p == Plan(wallet, price, Target, 0, MinSwap)
             side == SideOfTarget(Target)
  <2>1. UNCHANGED <<bank, need, budget, alloc, since>> /\ Keep
    BY <1>3 DEF PolicyPlans
  <2>2. p \in PlanType /\ Covered(p)
    BY MoneyFacts, TargetNow, SettingsType, PlanMade
  <2>3. side \in Sides
    BY DEF SideOfTarget, Sides
  <2>4. \/ PolicyEnds(FALSE)
        \/ /\ p.action # "none"
           /\ \E band \in Bands :
                swap' = [by |-> "policy", side |-> side, band |-> band, forced |-> FALSE]
           /\ \/ seen.total > 0 /\ plan' = p /\ pc' = "policyCap"
              \/ Execute(p)
           /\ UNCHANGED <<cycle, seen>>
    BY <1>3 DEF PolicyPlans, Goto
  <2> HIDE DEF p, side
  <2>5. CASE PolicyEnds(FALSE)
    BY <2>1, <2>5, PolicyEndsMoney
  <2>6. CASE /\ p.action # "none"
             /\ \E band \in Bands :
                  swap' = [by |-> "policy", side |-> side, band |-> band, forced |-> FALSE]
             /\ \/ seen.total > 0 /\ plan' = p /\ pc' = "policyCap"
                \/ Execute(p)
             /\ UNCHANGED <<cycle, seen>>
    <3>1. swap' \in SwapType
      <4>1. PICK band \in Bands :
              swap' = [by |-> "policy", side |-> side, band |-> band, forced |-> FALSE]
        BY <2>6
      <4> QED
        BY <4>1, <2>3 DEF SwapType
    <3>2. CASE seen.total > 0 /\ plan' = p /\ pc' = "policyCap"
      <4>1. seen'.total # 0 /\ seen' = seen /\ cycle' = cycle
        BY <2>6, <3>2, MoneyFacts DEF SeenType
      <4> QED
        BY <2>1, <2>2, <3>1, <3>2, <4>1 DEF Keep, bank, MoneyInv, Typed, Steps
    <3>3. CASE Execute(p)
      <4>1. seen' \in SeenType /\ cycle' \in CycleType
        BY <2>6, MoneyFacts
      <4> QED
        BY <2>1, <2>2, <2>6, <3>1, <3>3, <4>1, ExecuteMoney
    <3> QED
      BY <2>6, <3>2, <3>3
  <2> QED
    BY <2>4, <2>5, <2>6
<1>4. CASE PolicyCaps
  <2> DEFINE ratio == CappedRatio(seen.weight, seen.total, Target, swap.side)
             p == Plan(wallet, price, ratio, 0, MinSwap)
  <2>1. UNCHANGED <<bank, need, budget, alloc, since>> /\ Keep
    BY <1>4 DEF PolicyCaps
  <2>2. ratio \in 0..Bps
    <3>1. seen.weight \in 0..Bps /\ seen.total \in Nat \ {0}
      BY <1>4, MoneyFacts DEF PolicyCaps, MoneyInv, SeenType
    <3> QED
      BY <3>1, MoneyFacts, TargetNow, CappedType
  <2> HIDE DEF ratio
  <2>3. p \in PlanType /\ Covered(p)
    BY <2>2, MoneyFacts, SettingsType, PlanMade
  <2>4. \/ PolicyEnds(FALSE)
        \/ p.action # "none" /\ Execute(p) /\ UNCHANGED <<cycle, seen, swap>>
    BY <1>4 DEF PolicyCaps, ratio
  <2> HIDE DEF p
  <2>5. CASE PolicyEnds(FALSE)
    BY <2>1, <2>5, PolicyEndsMoney
  <2>6. CASE p.action # "none" /\ Execute(p) /\ UNCHANGED <<cycle, seen, swap>>
    <3>1. swap' \in SwapType /\ seen' \in SeenType /\ cycle' \in CycleType
      BY <2>6, MoneyFacts
    <3> QED
      BY <2>1, <2>3, <2>6, <3>1, ExecuteMoney
  <2> QED
    BY <2>4, <2>5, <2>6
<1>5. CASE PolicyFails
  BY <1>5, PolicyEndsMoney DEF PolicyFails
<1> QED
  BY <1>1, <1>2, <1>3, <1>4, <1>5

(* The wrap hands over to the swap what the plan reckoned with. *)
LEMMA SwapMoney ==
  ASSUME MoneyInv, Wrap \/ Swap
  PROVE  MoneyInv'
<1>1. CASE Wrap
  <2>1. /\ plan.action = "sell_mnt" /\ plan.wrap <= wallet.native
        /\ plan.amountIn <= wallet.wmnt + plan.wrap + Grain
    BY <1>1 DEF Wrap, MoneyInv, Covered
  <2>2. wallet' = Wrapped(wallet, plan.wrap) /\ plan' = plan /\ pc' = "swap"
    BY <1>1 DEF Wrap, Goto, work
  <2>3. wallet' \in Wallet /\ wallet'.wmnt = wallet.wmnt + plan.wrap
    BY <2>1, <2>2, MoneyFacts, WrapType
  <2>4. InReach' /\ plan'.action # "none"
    BY <2>1, <2>2, <2>3, MoneyFacts DEF InReach
  <2> QED
    BY <1>1, <2>2, <2>3, <2>4 DEF Wrap, Keep, work, MoneyInv, Typed, Steps
<1>2. CASE Swap
  <2>1. wallet' \in Wallet
    <3>1. CASE plan.action = "sell_mnt"
      <4>1. wallet' = Sold(wallet, plan.amountIn, price) /\ plan.amountIn <= wallet.wmnt
        BY <1>2, <3>1, MoneyFacts DEF Swap, Funded
      <4> QED BY <4>1, MoneyFacts, SoldType
    <3>2. CASE plan.action # "sell_mnt"
      <4>1. wallet' = Bought(wallet, plan.amountIn, price) /\ plan.amountIn <= wallet.usdt
        BY <1>2, <3>2, MoneyFacts DEF Swap, Funded
      <4> QED BY <4>1, MoneyFacts, BoughtType
    <3> QED BY <3>1, <3>2
  <2>2. cycle' \in CycleType
    <3>1. <<SideOfPlan(plan), swap.band>> \in Sides \X Bands
      BY MoneyFacts DEF SideOfPlan, Sides
    <3> QED
      BY <1>2, <3>1, MoneyFacts, CycleChanges DEF Swap
  <2>3. since' \in SinceType
    BY <1>2, MoneyFacts, SettingsType DEF Swap, SinceType
  <2>4. pc' \in {"select", "refreshed"}
    BY <1>2 DEF Swap, Goto
  <2> QED
    BY <1>2, <2>1, <2>2, <2>3, <2>4, RestType DEF Swap, Keep, MoneyInv, Typed, Steps
<1> QED
  BY <1>1, <1>2

(* The entry: the gate either swaps from a plan of its own or lets pass.     *)
LEMMA ForcedTargetType ==
  ASSUME MoneyInv
  PROVE  ForcedTarget(swap.side) \in 0..Bps
<1>1. PICK x \in Int : ForcedTarget(swap.side) = Larger(1000, Least(9000, x))
  <2>1. seen.weight + 500 \in Int /\ seen.weight + (-500) \in Int
    BY MoneyFacts DEF SeenType
  <2> QED
    BY <2>1 DEF ForcedTarget
<1>2. Larger(1000, Least(9000, x)) \in Nat /\ Larger(1000, Least(9000, x)) <= 10000
  BY DEF Larger, Least
<1> QED
  BY <1>1, <1>2, NumberIsShare

LEMMA LetPassMoney ==
  ASSUME MoneyInv, pc \in {"gatePlan", "gateForce"}, pc' \in {"allocate", "gateForce"},
         plan' = plan, swap' \in SwapType, UNCHANGED <<bank, cycle, need, seen, budget, alloc, since>>, Keep
  PROVE  MoneyInv'
BY DEF Keep, bank, MoneyInv, Typed, Steps, Spares

LEMMA GateMoney ==
  ASSUME MoneyInv,
         \/ SelectEntry \/ ReadBudget \/ GateReads \/ GatePlans \/ GateForced \/ GateWaits
         \/ Refresh \/ StillSkewed
  PROVE  MoneyInv'
<1>1. CASE SelectEntry
  <2>1. cycle' \in CycleType
    BY <1>1, MoneyFacts, CycleChanges DEF SelectEntry
  <2> QED
    BY <1>1, <2>1 DEF SelectEntry, Goto, Keep, bank, work, MoneyInv, Typed, Steps
<1>2. CASE ReadBudget
  <2>1. /\ \E p \in {price, 0} : budget' = Budget(wallet, p)
        /\ wallet' = wallet /\ pc' \in {"gate", "allocate"}
    BY <1>2 DEF ReadBudget, Goto, bank
  <2>2. budget' \in BudgetRec /\ Spares(budget)'
    BY <2>1, MoneyFacts, BudgetType DEF Spares
  <2> QED
    BY <1>2, <2>1, <2>2 DEF ReadBudget, Keep, bank, MoneyInv, Typed, Steps
<1>3. CASE GateReads
  <2>1. /\ pc' \in {"gatePlan", "allocate"} /\ seen' \in {seen, Sight}
        /\ UNCHANGED <<bank, cycle, need, plan, swap, budget, alloc, since>> /\ Keep
    BY <1>3 DEF GateReads, Goto
  <2>2. seen' \in SeenType
    BY <2>1, MoneyFacts, SightType
  <2>3. Spares(budget)'
    BY <1>3, <2>1 DEF GateReads, bank, MoneyInv, Spares
  <2> QED
    BY <2>1, <2>2, <2>3 DEF Keep, bank, MoneyInv, Typed, Steps
<1>4. CASE GatePlans
  <2> DEFINE p == Plan(wallet, price, Gate.target, Gate.tolerance, Gate.minTrade)
  <2>1. UNCHANGED <<bank, cycle, need, seen, budget, alloc, since>> /\ Keep /\ pc = "gatePlan"
    BY <1>4 DEF GatePlans
  <2>2. p \in PlanType /\ Covered(p)
    BY MoneyFacts, GateType, PlanMade
  <2>3. \/ GateForces(p)
        \/ GateTrades(p)
        \/ Goto("allocate") /\ UNCHANGED <<plan, swap>>
    BY <1>4 DEF GatePlans
  <2> HIDE DEF p
  <2>4. SideOfPlan(p) \in Sides
    BY DEF SideOfPlan, Sides
  <2>5. seen' \in SeenType /\ cycle' \in CycleType
    BY <2>1, MoneyFacts
  <2>6. CASE GateForces(p)
    <3>1. /\ pc' = "gateForce" /\ plan' = plan
          /\ swap' = [by |-> "wide", side |-> SideOfPlan(p), band |-> "unknown", forced |-> TRUE]
      BY <2>6 DEF GateForces, Goto
    <3>2. swap' \in SwapType
      BY <2>4, <3>1 DEF SwapType, Bands
    <3> QED
      BY <2>1, <3>1, <3>2, LetPassMoney
  <2>7. CASE GateTrades(p)
    <3>1. p.action # "none"
      BY <2>7 DEF GateTrades
    <3>2. PICK band \in Bands :
             \/ Goto("allocate") /\ UNCHANGED <<plan, swap>>
             \/ /\ Execute(p)
                /\ swap' = [by |-> "wide", side |-> SideOfPlan(p), band |-> band, forced |-> FALSE]
      BY <2>7 DEF GateTrades
    <3>3. CASE Goto("allocate") /\ UNCHANGED <<plan, swap>>
      BY <2>1, <3>3, MoneyFacts, LetPassMoney DEF Goto
    <3>4. CASE /\ Execute(p)
               /\ swap' = [by |-> "wide", side |-> SideOfPlan(p), band |-> band, forced |-> FALSE]
      <4>1. swap' \in SwapType
        BY <2>4, <3>4 DEF SwapType
      <4> QED
        BY <2>1, <2>2, <2>5, <3>1, <3>4, <4>1, ExecuteMoney
    <3> QED
      BY <3>2, <3>3, <3>4
  <2>8. CASE Goto("allocate") /\ UNCHANGED <<plan, swap>>
    BY <2>1, <2>8, MoneyFacts, LetPassMoney DEF Goto
  <2> QED
    BY <2>3, <2>6, <2>7, <2>8
<1>8. CASE GateForced
  <2> DEFINE small == Plan(wallet, price, ForcedTarget(swap.side), 0, Gate.viable)
  <2>1. UNCHANGED <<bank, cycle, need, seen, budget, alloc, since>> /\ Keep /\ pc = "gateForce"
    BY <1>8 DEF GateForced
  <2>2. small \in PlanType /\ Covered(small)
    BY MoneyFacts, GateType, ForcedTargetType, PlanMade
  <2>3. seen' \in SeenType /\ cycle' \in CycleType
    BY <2>1, MoneyFacts
  <2>4. \/ pc' = "allocate" /\ swap' = NoSwap /\ plan' = plan
        \/ small.action # "none" /\ Execute(small) /\ swap' = swap
    BY <1>8 DEF GateForced, Goto
  <2> HIDE DEF small
  <2>5. CASE pc' = "allocate" /\ swap' = NoSwap /\ plan' = plan
    BY <2>1, <2>5, RestType, LetPassMoney
  <2>6. CASE small.action # "none" /\ Execute(small) /\ swap' = swap
    <3>1. swap' \in SwapType
      BY <2>6, MoneyFacts
    <3> QED
      BY <2>1, <2>2, <2>3, <2>6, <3>1, ExecuteMoney
  <2> QED
    BY <2>4, <2>5, <2>6
<1>5. CASE GateWaits
  BY <1>5, EndCycleMoney, MoneyFacts DEF GateWaits, bank
<1>6. CASE Refresh
  <2>1. /\ \E p \in {price, 0} : budget' = Budget(wallet, p)
        /\ wallet' = wallet /\ pc' = "allocate"
    BY <1>6 DEF Refresh, Goto, bank
  <2>2. budget' \in BudgetRec /\ Spares(budget)'
    BY <2>1, MoneyFacts, BudgetType DEF Spares
  <2> QED
    BY <1>6, <2>1, <2>2 DEF Refresh, Keep, bank, MoneyInv, Typed, Steps
<1>7. CASE StillSkewed
  BY <1>7, EndCycleMoney, MoneyFacts DEF StillSkewed, bank
<1> QED
  BY <1>1, <1>2, <1>3, <1>4, <1>5, <1>6, <1>7, <1>8

(* What the router takes is in the wallet, and what is not allotted stays.   *)
LEMMA MintSpares ==
  ASSUME MoneyInv, Mint
  PROVE  /\ wallet' \in Wallet /\ lp' \in Amounts
         /\ lp'.mnt > 0 => Mnt(wallet') >= GasReserve + Headroom
<1> DEFINE value == Least(alloc.mnt, MaxNative)
           w == WithHeadroom(wallet, value)
<1>1. alloc.mnt \in Nat /\ alloc.usdt \in Nat
  BY MoneyFacts DEF AllocType
<1>2. value \in Nat /\ value <= alloc.mnt
  BY <1>1, SettingsType DEF Least
<1>3. w \in Wallet /\ Mnt(w) = Mnt(wallet) /\ w.usdt = wallet.usdt
  BY <1>2, MoneyFacts, HeadroomType
<1>4. PICK used \in {[mnt |-> value, usdt |-> alloc.usdt], [mnt |-> value, usdt |-> 0],
                     [mnt |-> 0, usdt |-> alloc.usdt]} :
        /\ w.native >= value
        /\ wallet' = [w EXCEPT !.native = @ - used.mnt, !.usdt = @ - used.usdt]
        /\ lp' = used
  BY DEF Mint
<1> HIDE DEF value, w
<1>5. /\ w.native \in Nat /\ w.wmnt \in Nat /\ w.usdt \in Nat
      /\ Mnt(w) = w.native + w.wmnt
  BY <1>3 DEF Wallet, Mnt
<1>6. /\ used.mnt \in Nat /\ used.mnt <= value /\ used.usdt \in Nat /\ used.usdt <= alloc.usdt
      /\ used \in Amounts
  BY <1>1, <1>2, <1>4 DEF Amounts
<1>7. /\ alloc.usdt <= wallet.usdt
      /\ alloc.mnt > 0 => alloc.mnt + GasReserve + Headroom <= Mnt(wallet)
  BY DEF Mint, MoneyInv, Spares
<1>8. PICK x \in Nat, y \in Nat : x = w.native - used.mnt /\ y = w.usdt - used.usdt
  BY <1>2, <1>3, <1>4, <1>5, <1>6, <1>7, <1>1
<1>9. wallet' = [w EXCEPT !.native = x, !.usdt = y]
  BY <1>4, <1>8, <1>3 DEF Wallet
<1>10. wallet' \in Wallet /\ wallet'.native = x /\ wallet'.wmnt = w.wmnt
  BY <1>9, <1>8, <1>3 DEF Wallet
<1>11. lp'.mnt > 0 => Mnt(wallet') >= GasReserve + Headroom
  <2>1. Mnt(wallet') = x + w.wmnt
    BY <1>10 DEF Mnt
  <2> QED
    BY <2>1, <1>1, <1>2, <1>3, <1>4, <1>5, <1>6, <1>7, <1>8, SettingsType
<1> QED
  BY <1>4, <1>6, <1>10, <1>11

LEMMA EntryMoney ==
  ASSUME MoneyInv, Allocate \/ TooSmall \/ EntryUnwrap \/ Mint \/ EntryFails
  PROVE  MoneyInv'
<1>1. CASE Allocate
  <2>1. PICK extra \in Extras : alloc' = Allot(extra)
    BY <1>1 DEF Allocate
  <2>2. /\ alloc' \in AllocType /\ alloc'.mnt <= budget.mnt /\ alloc'.usdt <= budget.usdt
    BY <2>1, MoneyFacts, CapitalAssumption, AllotType
  <2>3. alloc'.mnt \in Nat /\ alloc'.usdt \in Nat /\ budget.mnt \in Nat /\ budget.usdt \in Nat
    BY <2>2, MoneyFacts DEF AllocType, BudgetRec
  <2>4. wallet' = wallet /\ pc' = "add" /\ Spares(budget)
    BY <1>1 DEF Allocate, Goto, bank, MoneyInv
  <2>5. Spares(alloc)'
    <3>1. Mnt(wallet) \in Nat /\ wallet.usdt \in Nat
      BY MoneyFacts DEF Mnt
    <3> QED
      BY <2>2, <2>3, <2>4, <3>1, SettingsType DEF Spares
  <2> QED
    BY <1>1, <2>2, <2>4, <2>5 DEF Allocate, Keep, bank, MoneyInv, Typed, Steps
<1>2. CASE TooSmall
  BY <1>2, EndCycleMoney, MoneyFacts DEF TooSmall, bank
<1>3. CASE EntryUnwrap
  <2>1. wallet' \in Wallet /\ Mnt(wallet') = Mnt(wallet) /\ wallet'.usdt = wallet.usdt
    BY <1>3, MoneyFacts, AllUnwrappedType DEF EntryUnwrap
  <2>2. alloc' = alloc /\ Spares(alloc) /\ pc' = "mint"
    BY <1>3 DEF EntryUnwrap, work, Goto, MoneyInv
  <2>3. Spares(alloc)'
    BY <2>1, <2>2 DEF Spares
  <2> QED
    BY <1>3, <2>1, <2>2, <2>3 DEF EntryUnwrap, Keep, work, MoneyInv, Typed, Steps
<1>4. CASE Mint
  BY <1>4, MintSpares, EndCycleMoney DEF Mint
<1>5. CASE EntryFails
  <2> DEFINE value == Least(alloc.mnt, MaxNative)
  <2>1. value \in Nat
    BY MoneyFacts, SettingsType DEF AllocType, Least
  <2>2. wallet' \in {wallet, WithHeadroom(wallet, value)} /\ EndCycle /\ lp' = lp
    BY <1>5 DEF EntryFails
  <2> HIDE DEF value
  <2>3. wallet' \in Wallet
    BY <2>1, <2>2, MoneyFacts, HeadroomType
  <2> QED
    BY <2>2, <2>3, MoneyFacts, EndCycleMoney
<1> QED
  BY <1>1, <1>2, <1>3, <1>4, <1>5

LEMMA MoneyStep == MoneyInv /\ [Next]_vars => MoneyInv'
<1> SUFFICES ASSUME MoneyInv, [Next]_vars PROVE MoneyInv'
  OBVIOUS
<1>1. CASE PriceMoves \/ StartCycle \/ Hold \/ Enter \/ ExitPosition \/ ExitUnwrap
  BY <1>1, ExitMoney
<1>2. CASE GuardUnwrap \/ GuardNeedsSwap \/ TopUpPlan \/ TopUpSwap \/ TopUpUnwrap \/ GuardEnds
  BY <1>2, GuardMoney
<1>3. CASE PolicyContinues \/ PolicyReads \/ PolicyPlans \/ PolicyCaps \/ PolicyFails
  BY <1>3, PolicyMoney
<1>4. CASE Wrap \/ Swap
  BY <1>4, SwapMoney
<1>5. CASE \/ SelectEntry \/ ReadBudget \/ GateReads \/ GatePlans \/ GateForced \/ GateWaits
           \/ Refresh \/ StillSkewed
  BY <1>5, GateMoney
<1>6. CASE Allocate \/ TooSmall \/ EntryUnwrap \/ Mint \/ EntryFails
  BY <1>6, EntryMoney
<1>7. CASE UNCHANGED vars
  BY <1>7 DEF vars, MoneyInv, Typed, Covered, Spares, InReach
<1> QED
  BY <1>1, <1>2, <1>3, <1>4, <1>5, <1>6, <1>7 DEF Next

LEMMA MoneyAlways == Spec => []MoneyInv
BY MoneyInit, MoneyStep, PTL DEF Spec

-----------------------------------------------------------------------------
(* The variables of the wallet keep their types through every cycle: no      *)
(* unwrap, wrap, swap, exit or add of the bot drives a balance below zero.   *)
THEOREM CapitalTypeCorrect == Spec => []TypeOK
<1>1. MoneyInv => TypeOK
  BY TypedIsTypeOK DEF MoneyInv
<1> QED
  BY <1>1, MoneyAlways, PTL

(* What a planned swap pays is in the wallet when its turn comes, whatever   *)
(* the price did since, but for the last place of a sale and of its wrap,    *)
(* which are rounded one by one (plan_rebalance, serialize_decimal).         *)
THEOREM CapitalSwapFundedToAGrain == Spec => []SwapFundedToAGrain
<1>1. MoneyInv => SwapFundedToAGrain
  BY DEF MoneyInv, Covered, InReach, SwapFundedToAGrain
<1> QED
  BY <1>1, MoneyAlways, PTL

(* A position is opened by the mint alone. *)
LEMMA PositionChanges ==
  ASSUME Next, lp' # lp, lp' # Empty
  PROVE  Mint
<1>1. ~(PriceMoves \/ StartCycle \/ Hold \/ Enter \/ ExitPosition \/ ExitUnwrap)
  BY DEF PriceMoves, StartCycle, Hold, Enter, ExitPosition, ExitUnwrap, bank
<1>2. ~(GuardUnwrap \/ GuardNeedsSwap \/ TopUpPlan \/ TopUpSwap \/ TopUpUnwrap \/ GuardEnds)
  BY DEF GuardUnwrap, GuardNeedsSwap, TopUpPlan, TopUpSwap, TopUpUnwrap, GuardEnds, bank
<1>3. ~(PolicyContinues \/ PolicyReads \/ PolicyPlans \/ PolicyCaps \/ PolicyFails)
  BY DEF PolicyContinues, PolicyReads, PolicyPlans, PolicyCaps, PolicyFails, bank
<1>4. ~(Wrap \/ Swap)
  BY DEF Wrap, Swap
<1>5. ~(\/ SelectEntry \/ ReadBudget \/ GateReads \/ GatePlans \/ GateForced \/ GateWaits
        \/ Refresh \/ StillSkewed)
  BY DEF SelectEntry, ReadBudget, GateReads, GatePlans, GateForced, GateWaits, Refresh,
         StillSkewed, bank
<1>6. ~(Allocate \/ TooSmall \/ EntryUnwrap \/ EntryFails)
  BY DEF Allocate, TooSmall, EntryUnwrap, EntryFails, bank
<1> QED
  BY <1>1, <1>2, <1>3, <1>4, <1>5, <1>6 DEF Next

(* An add that takes MNT leaves the gas reserve and the headroom, because    *)
(* the budget it was cut from was read after the last swap of the cycle      *)
(* (get_capital_budget, _prepare_wide_entry_inventory).                      *)
THEOREM CapitalEntryKeepsReserve == Spec => EntryKeepsReserve
<1>1. MoneyInv /\ [Next]_vars
        => [lp = Empty /\ lp'.mnt > 0 => Mnt(wallet') >= GasReserve + Headroom]_vars
  <2> SUFFICES ASSUME MoneyInv, Next, lp = Empty, lp'.mnt > 0
               PROVE  Mnt(wallet') >= GasReserve + Headroom
    OBVIOUS
  <2>1. Empty.mnt = 0
    BY DEF Empty
  <2>2. lp' # lp /\ lp' # Empty
    BY <2>1
  <2>3. Mint
    BY <2>2, PositionChanges
  <2> QED
    BY <2>3, MintSpares
<1> QED
  BY <1>1, MoneyAlways, PTL DEF Spec, EntryKeepsReserve

(* The steps that are possible while the guard is at work. *)
LEMMA GuardSteps ==
  ASSUME Next, pc \in {"guard", "topupUnwrap"}
  PROVE  PriceMoves \/ GuardUnwrap \/ GuardNeedsSwap \/ TopUpUnwrap \/ GuardEnds
<1>1. ~(StartCycle \/ Hold \/ Enter \/ ExitPosition \/ ExitUnwrap \/ TopUpPlan \/ TopUpSwap)
  BY DEF StartCycle, Hold, Enter, ExitPosition, ExitUnwrap, TopUpPlan, TopUpSwap
<1>2. ~(PolicyContinues \/ PolicyReads \/ PolicyPlans \/ PolicyCaps \/ PolicyFails)
  BY DEF PolicyContinues, PolicyReads, PolicyPlans, PolicyCaps, PolicyFails
<1>3. ~(Wrap \/ Swap)
  BY DEF Wrap, Swap
<1>4. ~(\/ SelectEntry \/ ReadBudget \/ GateReads \/ GatePlans \/ GateForced \/ GateWaits
        \/ Refresh \/ StillSkewed)
  BY DEF SelectEntry, ReadBudget, GateReads, GatePlans, GateForced, GateWaits, Refresh, StillSkewed
<1>5. ~(Allocate \/ TooSmall \/ EntryUnwrap \/ Mint \/ EntryFails)
  BY DEF Allocate, TooSmall, EntryUnwrap, Mint, EntryFails
<1> QED
  BY <1>1, <1>2, <1>3, <1>4, <1>5 DEF Next

(* The guard of the native balance never fills it beyond twice the minimum,  *)
(* by its two unwraps and at whatever price its swap went through            *)
(* (ensure_mnt_min_balance: the second unwrap takes what is still missing).  *)
THEOREM CapitalTopUpWithinTarget == Spec => TopUpWithinTarget
<1>1. MoneyInv /\ [Next]_vars
        => [(pc \in {"guard", "topupUnwrap"} /\ wallet'.native > wallet.native)
               => (wallet'.native <= 2 * Minimum)]_vars
  <2> SUFFICES ASSUME MoneyInv, Next, pc \in {"guard", "topupUnwrap"},
                      wallet'.native > wallet.native
               PROVE  wallet'.native <= 2 * Minimum
    OBVIOUS
  <2>1. CASE GuardUnwrap
    <3> DEFINE amount == Least(wallet.wmnt, Deficit(wallet))
    <3>1. Deficit(wallet) \in Nat /\ wallet.native + Deficit(wallet) = 2 * Minimum
      BY <2>1, MoneyFacts, DeficitType DEF GuardUnwrap
    <3>2. amount \in Nat /\ amount <= wallet.wmnt /\ amount <= Deficit(wallet)
      BY <3>1, MoneyFacts DEF Least
    <3>3. wallet' = Unwrapped(wallet, amount)
      BY <2>1 DEF GuardUnwrap
    <3> HIDE DEF amount
    <3>4. wallet'.native = wallet.native + amount
      BY <3>2, <3>3, MoneyFacts, UnwrapType
    <3> QED
      BY <3>1, <3>2, <3>4, MoneyFacts, SettingsType
  <2>2. CASE TopUpUnwrap
    <3> DEFINE amount == Least(wallet.wmnt, need)
    <3>1. amount \in Nat /\ amount <= wallet.wmnt /\ amount <= need
      BY MoneyFacts DEF Least
    <3>2. wallet' = Unwrapped(wallet, amount) /\ wallet.native + need <= 2 * Minimum
      BY <2>2 DEF TopUpUnwrap, MoneyInv
    <3> HIDE DEF amount
    <3>3. wallet'.native = wallet.native + amount
      BY <3>1, <3>2, MoneyFacts, UnwrapType
    <3> QED
      BY <3>1, <3>2, <3>3, MoneyFacts, SettingsType
  <2>3. CASE PriceMoves \/ GuardNeedsSwap \/ GuardEnds
    <3>1. wallet' = wallet
      BY <2>3 DEF PriceMoves, GuardNeedsSwap, GuardEnds, bank
    <3> QED
      BY <3>1, MoneyFacts
  <2> QED
    BY <2>1, <2>2, <2>3, GuardSteps
<1> QED
  BY <1>1, MoneyAlways, PTL DEF Spec, TopUpWithinTarget

-----------------------------------------------------------------------------
(* The swaps of a cycle.  A swap by a known average is charged to the side   *)
(* that average favours; one of the gate goes that way, one of the policy    *)
(* goes the way of its plan.  While a side cools down the gate does not swap *)
(* that way: after a swap of the policy it goes the other way only if the    *)
(* policy's went the way its own average favoured.                           *)
Before == {"idle", "guard", "topup", "topupSwap", "topupUnwrap", "look", "exited", "policy",
           "policyPlan", "policyCap"}

Known(t) == t[2] # "unknown"

Right(t) == t[2] = Favourable(t[1])

PolicySwap == cycle.traded = {} /\ ~VwapBlocks(swap.side, swap.band)

WideSwap ==
  /\ swap.side = SideOfPlan(plan) /\ swap.band = Favourable(swap.side)
  /\ \A t \in cycle.traded : Known(t) => t[1] = swap.side \/ Right(t)

Charged(t) == \E side \in Sides : Favourable(side) = t[2] /\ since[side] = 0

Entering == {"select", "budget", "gate", "gatePlan"}

TradesInv ==
  /\ pc \in Before => cycle.traded = {}
  /\ pc = "policyCap" => swap.by = "policy"
  /\ pc \in {"policyCap", "wrap", "swap"} /\ swap.by = "policy" => PolicySwap
  /\ pc \in {"wrap", "swap"} /\ swap.by # "policy" /\ swap.band # "unknown" => WideSwap
  /\ pc = "gateForce" => swap.by = "wide" /\ swap.band = "unknown"
  /\ pc \in Entering => \A t \in cycle.traded : Known(t) => Charged(t)
  /\ \A t, u \in cycle.traded :
        Known(t) /\ Known(u) => t[1] = u[1] \/ (Right(t) /\ Right(u))

LEMMA TradesInit == Init => TradesInv
BY DEF Init, TradesInv, Calm, NoSwap, Before, Entering

(* A step that leaves the swaps and the clock of the sides as they are, and  *)
(* is not on the way to a swap.                                              *)
LEMMA TradesKept ==
  ASSUME TradesInv, UNCHANGED <<cycle, since>>,
         \/ pc' = pc /\ swap' = swap /\ plan' = plan
         \/ pc \in Before /\ pc' \in Before \ {"policyCap"}
         \/ pc' \notin Before \cup Entering \cup {"wrap", "swap", "gateForce"}
         \/ pc \in Entering /\ pc' \in Entering
  PROVE  TradesInv'
<1>1. CASE pc' = pc /\ swap' = swap /\ plan' = plan
  BY <1>1 DEF TradesInv, PolicySwap, WideSwap, Charged, Known, Right
<1>2. CASE pc \in Before /\ pc' \in Before \ {"policyCap"}
  BY <1>2 DEF TradesInv, Before, Entering, Known, Right
<1>3. CASE pc' \notin Before \cup Entering \cup {"wrap", "swap", "gateForce"}
  BY <1>3 DEF TradesInv, Before, Entering, Known, Right
<1>4. CASE pc \in Entering /\ pc' \in Entering
  BY <1>4 DEF TradesInv, Before, Entering, Known, Charged, Right
<1> QED
  BY <1>1, <1>2, <1>3, <1>4

(* Nothing traded yet, and no swap in hand. *)
LEMMA NothingTraded ==
  ASSUME cycle'.traded = {}, pc' \notin {"policyCap", "wrap", "swap", "gateForce"}
  PROVE  TradesInv'
BY DEF TradesInv

LEMMA EndCycleTrades ==
  ASSUME EndCycle
  PROVE  TradesInv'
BY NothingTraded DEF EndCycle, Goto, Calm

LEMMA EarlyTrades ==
  ASSUME MoneyInv, TradesInv,
         \/ PriceMoves \/ StartCycle \/ Hold \/ Enter \/ ExitPosition \/ ExitUnwrap
         \/ GuardUnwrap \/ GuardNeedsSwap \/ TopUpPlan \/ TopUpSwap \/ TopUpUnwrap \/ GuardEnds
  PROVE  TradesInv'
<1>1. CASE PriceMoves
  BY <1>1, TradesKept DEF PriceMoves, work
<1>2. CASE StartCycle
  <2>1. cycle'.traded = {} /\ pc' = "guard"
    BY <1>2 DEF StartCycle, Calm, Goto
  <2> QED
    BY <2>1, NothingTraded
<1>3. CASE Hold
  BY <1>3, EndCycleTrades DEF Hold
<1>4. CASE Enter
  <2>1. cycle.traded = {}
    BY <1>4 DEF Enter, TradesInv, Before
  <2>2. cycle'.traded = {} /\ pc' = "budget"
    <3>1. PICK m \in Scales, s \in {"wide", "narrow"} :
             cycle' = [cycle EXCEPT !.market = m, !.strategy = s, !.prep = (s = "wide")]
      BY <1>4 DEF Enter
    <3>2. cycle'.traded = cycle.traded
      BY <3>1, MoneyFacts DEF CycleType
    <3> QED
      BY <1>4, <2>1, <3>2 DEF Enter, Goto
  <2> QED
    BY <2>2, NothingTraded
<1>5. CASE ExitPosition
  <2>1. cycle.traded = {}
    BY <1>5 DEF ExitPosition, TradesInv, Before
  <2>2. cycle'.traded = {} /\ pc' = "exited"
    <3>1. PICK dir \in Directions : cycle' = [cycle EXCEPT !.dir = dir]
      BY <1>5 DEF ExitPosition
    <3>2. cycle'.traded = cycle.traded
      BY <3>1, MoneyFacts DEF CycleType
    <3> QED
      BY <1>5, <2>1, <3>2 DEF ExitPosition, Goto
  <2> QED
    BY <2>2, NothingTraded
<1>6. CASE ExitUnwrap
  BY <1>6, TradesKept DEF ExitUnwrap, Before, Goto
<1>7. CASE GuardUnwrap \/ GuardNeedsSwap \/ TopUpPlan \/ TopUpSwap \/ TopUpUnwrap \/ GuardEnds
  <2>1. /\ pc \in Before /\ pc' \in Before \ {"policyCap"}
        /\ UNCHANGED <<cycle, since>>
    BY <1>7 DEF GuardUnwrap, GuardNeedsSwap, TopUpPlan, TopUpSwap, TopUpUnwrap, GuardEnds,
                Goto, Before
  <2> QED
    BY <2>1, TradesKept
<1> QED
  BY <1>1, <1>2, <1>3, <1>4, <1>5, <1>6, <1>7

(* The policy trades nothing itself; what it plans has passed its guards. *)
LEMMA PolicyEndsTrades ==
  ASSUME MoneyInv, cycle.traded = {}, NEW continues, PolicyEnds(continues)
  PROVE  TradesInv'
<1>1. cycle'.traded = {} /\ pc' = "select"
  BY MoneyFacts DEF PolicyEnds, Goto, CycleType
<1> QED
  BY <1>1, NothingTraded

LEMMA PolicyExecutes ==
  ASSUME NEW p, Execute(p) \/ pc' = "policyCap", swap'.by = "policy", PolicySwap'
  PROVE  TradesInv'
<1>1. pc' \in {"policyCap", "wrap", "swap"}
  BY DEF Execute, Goto
<1> QED
  BY <1>1 DEF TradesInv, PolicySwap, Before, Entering

LEMMA PolicyTrades ==
  ASSUME MoneyInv, TradesInv,
         PolicyContinues \/ PolicyReads \/ PolicyPlans \/ PolicyCaps \/ PolicyFails
  PROVE  TradesInv'
<1>1. cycle.traded = {}
  <2>1. pc \in {"policy", "policyPlan", "policyCap"} \/ (pc \in {"wrap", "swap"} /\ swap.by = "policy")
    BY DEF PolicyContinues, PolicyReads, PolicyPlans, PolicyCaps, PolicyFails
  <2> QED
    BY <2>1 DEF TradesInv, Before, PolicySwap
<1>2. CASE PolicyContinues
  BY <1>1, <1>2, PolicyEndsTrades DEF PolicyContinues
<1>3. CASE PolicyReads
  <2>1. \/ PolicyEnds(FALSE)
        \/ cycle' = cycle /\ pc' = "policyPlan"
    BY <1>3 DEF PolicyReads, Goto
  <2> QED
    BY <1>1, <2>1, PolicyEndsTrades, NothingTraded
<1>4. CASE PolicyPlans
  <2> DEFINE p == Plan(wallet, price, Target, 0, MinSwap)
             side == SideOfTarget(Target)
  <2>1. \/ PolicyEnds(FALSE)
        \/ /\ cycle' = cycle
           /\ Execute(p) \/ pc' = "policyCap"
           /\ \E band \in Bands :
                /\ ~VwapBlocks(side, band)
                /\ swap' = [by |-> "policy", side |-> side, band |-> band, forced |-> FALSE]
    BY <1>4 DEF PolicyPlans, Goto
  <2> HIDE DEF p, side
  <2>2. CASE PolicyEnds(FALSE)
    BY <1>1, <2>2, PolicyEndsTrades
  <2>3. CASE /\ cycle' = cycle
             /\ Execute(p) \/ pc' = "policyCap"
             /\ \E band \in Bands :
                  /\ ~VwapBlocks(side, band)
                  /\ swap' = [by |-> "policy", side |-> side, band |-> band, forced |-> FALSE]
    <3>1. PICK band \in Bands :
             /\ ~VwapBlocks(side, band)
             /\ swap' = [by |-> "policy", side |-> side, band |-> band, forced |-> FALSE]
      BY <2>3
    <3>2. swap'.by = "policy" /\ swap'.side = side /\ swap'.band = band
      BY <3>1
    <3>3. PolicySwap'
      BY <1>1, <2>3, <3>1, <3>2 DEF PolicySwap
    <3> QED
      BY <2>3, <3>2, <3>3, PolicyExecutes
  <2> QED
    BY <2>1, <2>2, <2>3
<1>5. CASE PolicyCaps
  <2>1. PolicySwap /\ swap.by = "policy"
    BY <1>5 DEF PolicyCaps, TradesInv
  <2>2. \/ PolicyEnds(FALSE)
        \/ (\E p : Execute(p)) /\ UNCHANGED <<cycle, swap>>
    BY <1>5 DEF PolicyCaps
  <2>3. CASE PolicyEnds(FALSE)
    BY <1>1, <2>3, PolicyEndsTrades
  <2>4. CASE (\E p : Execute(p)) /\ UNCHANGED <<cycle, swap>>
    <3>1. PolicySwap' /\ swap'.by = "policy"
      BY <2>1, <2>4 DEF PolicySwap
    <3> QED
      BY <2>4, <3>1, PolicyExecutes
  <2> QED
    BY <2>2, <2>3, <2>4
<1>6. CASE PolicyFails
  BY <1>1, <1>6, PolicyEndsTrades DEF PolicyFails
<1> QED
  BY <1>2, <1>3, <1>4, <1>5, <1>6

(* A swap is charged to the side its average favours, in the policy to the   *)
(* side of its target even when the plan goes the other way.                 *)
LEMMA SwapTrades ==
  ASSUME MoneyInv, TradesInv, Wrap \/ Swap
  PROVE  TradesInv'
<1>1. CASE Wrap
  <2>1. pc = "wrap" /\ pc' = "swap" /\ UNCHANGED <<cycle, swap, plan, since>>
    BY <1>1 DEF Wrap, Goto, work
  <2> QED
    BY <2>1 DEF TradesInv, Before, Entering, PolicySwap, WideSwap, Known, Right
<1>2. CASE Swap
  <2> DEFINE t0 == <<SideOfPlan(plan), swap.band>>
  <2>1. /\ cycle' = [cycle EXCEPT !.prep = TRUE, !.traded = @ \cup {t0}]
        /\ since' = [since EXCEPT ![swap.side] = 0]
        /\ pc = "swap" /\ pc' = IF swap.by = "policy" THEN "select" ELSE "refreshed"
    BY <1>2 DEF Swap, Goto
  <2>2. cycle'.traded = cycle.traded \cup {t0}
    BY <2>1, MoneyFacts DEF CycleType
  <2>3. t0[1] = SideOfPlan(plan) /\ t0[2] = swap.band
    OBVIOUS
  <2>4. since'[swap.side] = 0 /\ swap.side \in Sides
    BY <2>1, MoneyFacts DEF SinceType
  <2> HIDE DEF t0
  <2>5. CASE swap.by = "policy"
    <3>1. cycle'.traded = {t0} /\ PolicySwap /\ pc' = "select"
      BY <2>1, <2>2, <2>5 DEF TradesInv, PolicySwap
    <3>2. Known(t0) => Favourable(swap.side) = t0[2]
      BY <2>3, <3>1 DEF PolicySwap, VwapBlocks, Known
    <3>3. \A t \in cycle'.traded : Known(t) => Charged(t)'
      BY <2>4, <3>1, <3>2 DEF Charged
    <3> QED
      BY <3>1, <3>3 DEF TradesInv, Before, Entering, Known
  <2>6. CASE swap.by # "policy"
    <3>1. pc' = "refreshed"
      BY <2>1, <2>6
    <3>2. Known(t0) => WideSwap
      BY <2>1, <2>3, <2>6 DEF TradesInv, Known
    <3>3. Known(t0) => /\ Right(t0)
                       /\ \A t \in cycle.traded : Known(t) => t[1] = t0[1] \/ Right(t)
      BY <2>3, <3>2 DEF WideSwap, Right
    <3>4. \A t, u \in cycle'.traded :
             Known(t) /\ Known(u) => t[1] = u[1] \/ (Right(t) /\ Right(u))
      BY <2>2, <3>3 DEF TradesInv
    <3> QED
      BY <3>1, <3>4 DEF TradesInv, Before, Entering
  <2> QED
    BY <2>5, <2>6
<1> QED
  BY <1>1, <1>2

(* What the cycle swapped before by a known average is charged to the side   *)
(* that average favours.  The gate's side is not cooling down, so it is the  *)
(* other one: a swap that went the other way went the way it should.         *)
LEMMA CooldownExcludes ==
  ASSUME MoneyInv, TradesInv, Cooldown > 0, pc = "gatePlan", NEW side \in Sides,
         ~CooldownBlocks(side, since)
  PROVE  \A t \in cycle.traded : Known(t) => t[1] = side \/ Right(t)
<1> SUFFICES ASSUME NEW t \in cycle.traded, Known(t), t[1] # side PROVE Right(t)
  OBVIOUS
<1>1. PICK other \in Sides : Favourable(other) = t[2] /\ since[other] = 0
  BY DEF TradesInv, Charged, Entering
<1>2. other # side
  <2>1. Cooldown \in Nat /\ (since[side] < Cooldown) = CooldownBlocks(side, since)
    BY SettingsType DEF CooldownBlocks
  <2> QED
    BY <1>1, <2>1
<1>3. t[1] \in Sides
  BY MoneyFacts DEF CycleType
<1> QED
  BY <1>1, <1>2, <1>3 DEF Right, Sides

LEMMA WideExecutes ==
  ASSUME TradesInv, NEW p, Execute(p), cycle' = cycle, swap'.by = "wide",
         swap'.band # "unknown" => WideSwap'
  PROVE  TradesInv'
<1>1. pc' \in {"wrap", "swap"}
  BY DEF Execute, Goto
<1> QED
  BY <1>1 DEF TradesInv, Before, Entering, Known, Right

LEMMA EntryTrades ==
  ASSUME MoneyInv, TradesInv, Cooldown > 0,
         \/ SelectEntry \/ ReadBudget \/ GateReads \/ GatePlans \/ GateForced \/ GateWaits \/ Refresh
         \/ StillSkewed \/ Allocate \/ TooSmall \/ EntryUnwrap \/ Mint \/ EntryFails
  PROVE  TradesInv'
<1>1. CASE SelectEntry
  <2>1. PICK m \in Scales : cycle' = [cycle EXCEPT !.market = m]
    BY <1>1 DEF SelectEntry
  <2>2. cycle'.traded = cycle.traded
    BY <2>1, MoneyFacts DEF CycleType
  <2>3. pc = "select" /\ pc' = "budget" /\ since' = since
    BY <1>1 DEF SelectEntry, Goto
  <2> QED
    BY <2>2, <2>3 DEF TradesInv, Before, Entering, Known, Right, Charged
<1>2. CASE ReadBudget \/ GateReads
  <2>1. /\ pc \in {"budget", "gate"} /\ pc' \in {"gate", "gatePlan", "allocate"}
        /\ UNCHANGED <<cycle, since>>
    BY <1>2 DEF ReadBudget, GateReads, Goto
  <2> QED
    BY <2>1, TradesKept DEF Before, Entering
<1>3. CASE GatePlans
  <2> DEFINE p == Plan(wallet, price, Gate.target, Gate.tolerance, Gate.minTrade)
  <2>1. UNCHANGED <<cycle, since>> /\ pc = "gatePlan"
    BY <1>3 DEF GatePlans
  <2>2. GateForces(p) \/ GateTrades(p) \/ pc' = "allocate"
    BY <1>3 DEF GatePlans, Goto
  <2> HIDE DEF p
  <2>3. CASE pc' = "allocate"
    BY <2>1, <2>3, TradesKept DEF Before, Entering
  <2>4. CASE GateForces(p)
    <3>1. pc' = "gateForce" /\ swap'.by = "wide" /\ swap'.band = "unknown"
      BY <2>4 DEF GateForces, Goto
    <3> QED
      BY <2>1, <3>1 DEF TradesInv, Before, Entering, Known, Right
  <2>5. CASE GateTrades(p)
    <3> DEFINE side == SideOfPlan(p)
    <3>1. PICK band \in Bands :
             \/ pc' = "allocate"
             \/ /\ ~VwapBlocks(side, band) /\ ~CooldownBlocks(side, since)
                /\ Execute(p)
                /\ swap' = [by |-> "wide", side |-> side, band |-> band, forced |-> FALSE]
      BY <2>5 DEF GateTrades, Goto
    <3>2. CASE /\ ~VwapBlocks(side, band) /\ ~CooldownBlocks(side, since)
               /\ Execute(p)
               /\ swap' = [by |-> "wide", side |-> side, band |-> band, forced |-> FALSE]
      <4>1. side \in Sides
        BY DEF SideOfPlan, Sides
      <4>2. swap'.by = "wide" /\ swap'.side = side /\ swap'.band = band /\ plan' = p
        BY <3>2 DEF Execute
      <4>3. band # "unknown" => band = Favourable(side)
        BY <3>2 DEF VwapBlocks
      <4>4. SideOfPlan(plan') = side
        BY <4>2
      <4> HIDE DEF side
      <4>5. \A t \in cycle.traded : Known(t) => t[1] = side \/ Right(t)
        BY <2>1, <3>2, <4>1, CooldownExcludes
      <4>6. band # "unknown" => WideSwap'
        BY <2>1, <4>2, <4>3, <4>4, <4>5 DEF WideSwap, Known, Right
      <4> QED
        BY <2>1, <3>2, <4>2, <4>6, WideExecutes
    <3> QED
      BY <2>3, <3>1, <3>2
  <2> QED
    BY <2>2, <2>3, <2>4, <2>5
<1>6. CASE GateForced
  <2>1. /\ UNCHANGED <<cycle, since>> /\ pc = "gateForce"
        /\ \/ pc' = "allocate"
           \/ (\E small : Execute(small)) /\ swap' = swap
    BY <1>6 DEF GateForced, Goto
  <2>2. CASE pc' = "allocate"
    BY <2>1, <2>2, TradesKept DEF Before, Entering
  <2>3. CASE (\E small : Execute(small)) /\ swap' = swap
    <3>1. swap'.by = "wide" /\ swap'.band = "unknown"
      BY <2>1, <2>3 DEF TradesInv
    <3> QED
      BY <2>1, <2>3, <3>1, WideExecutes
  <2> QED
    BY <2>1, <2>2, <2>3
<1>4. CASE GateWaits \/ StillSkewed \/ TooSmall \/ Mint \/ EntryFails
  BY <1>4, EndCycleTrades DEF GateWaits, StillSkewed, TooSmall, Mint, EntryFails
<1>5. CASE Refresh \/ Allocate \/ EntryUnwrap
  <2>1. pc' \in {"allocate", "add", "mint"} /\ UNCHANGED <<cycle, since>>
    BY <1>5 DEF Refresh, Allocate, EntryUnwrap, Goto
  <2> QED
    BY <2>1, TradesKept DEF Before, Entering
<1> QED
  BY <1>1, <1>2, <1>3, <1>4, <1>5, <1>6

LEMMA TradesStep ==
  ASSUME Cooldown > 0, MoneyInv, TradesInv, [Next]_vars
  PROVE  TradesInv'
<1>1. CASE \/ PriceMoves \/ StartCycle \/ Hold \/ Enter \/ ExitPosition \/ ExitUnwrap
           \/ GuardUnwrap \/ GuardNeedsSwap \/ TopUpPlan \/ TopUpSwap \/ TopUpUnwrap \/ GuardEnds
  BY <1>1, EarlyTrades
<1>2. CASE PolicyContinues \/ PolicyReads \/ PolicyPlans \/ PolicyCaps \/ PolicyFails
  BY <1>2, PolicyTrades
<1>3. CASE Wrap \/ Swap
  BY <1>3, SwapTrades
<1>4. CASE \/ SelectEntry \/ ReadBudget \/ GateReads \/ GatePlans \/ GateForced \/ GateWaits \/ Refresh
           \/ StillSkewed \/ Allocate \/ TooSmall \/ EntryUnwrap \/ Mint \/ EntryFails
  BY <1>4, EntryTrades
<1>5. CASE UNCHANGED vars
  BY <1>5, TradesKept DEF vars, work
<1> QED
  BY <1>1, <1>2, <1>3, <1>4, <1>5 DEF Next

(* With the cooldown switched on (the setting's default is four hours) a     *)
(* cycle that sells MNT and buys it too has sold above the average and       *)
(* bought below it, as each guard read price and average for itself, unless  *)
(* one of the reads failed or the gate forced the swap.                      *)
THEOREM CapitalNoWhipsaw ==
  ASSUME Cooldown > 0
  PROVE  Spec => []NoWhipsaw
<1>1. Init => TradesInv
  BY TradesInit
<1>2. MoneyInv /\ TradesInv /\ [Next]_vars => TradesInv'
  BY TradesStep
<1>3. TradesInv => NoWhipsaw
  BY DEF TradesInv, NoWhipsaw, Known, Right, Favourable
<1> QED
  BY <1>1, <1>2, <1>3, MoneyAlways, PTL DEF Spec

-----------------------------------------------------------------------------
(* The size of a swap.  While a plan is made the wallet is the one that was  *)
(* read, so at an unchanged price the weight and the total it is judged by   *)
(* are those of the wallet, up to the rounding of the weight.                *)
SeenIs ==
  /\ seen.mnt = MntValue(wallet, seen.price)
  /\ seen.usdt = wallet.usdt
  /\ seen.total = TotalValue(wallet, seen.price)
  /\ seen.weight * seen.total <= seen.mnt * Bps
  /\ seen.mnt * Bps <= seen.weight * seen.total + seen.total

SightInv ==
  /\ pc \in {"policyPlan", "policyCap", "gatePlan", "gateForce"} => SeenIs
  /\ pc = "policyCap" => ~swap.forced
  /\ pc = "gateForce" => swap.by = "wide"

LEMMA SightIs ==
  ASSUME MoneyInv, seen' = Sight, wallet' = wallet
  PROVE  SeenIs'
<1> DEFINE m == MntValue(wallet, price)
           t == TotalValue(wallet, price)
           weight == IF t = 0 THEN 0 ELSE (m * Bps) \div t
<1>1. m \in Nat /\ t \in Nat /\ m <= t
  BY MoneyFacts, ValueType
<1>2. seen' = [total |-> t, weight |-> weight, mnt |-> m, usdt |-> wallet.usdt, price |-> price]
  BY DEF Sight
<1>3. weight * t <= m * Bps /\ m * Bps <= weight * t + t
  <2> HIDE DEF m, t
  <2>1. CASE t = 0
    BY <1>1, <2>1 DEF Bps
  <2>2. CASE t # 0
    <3> DEFINE x == m * Bps
    <3>1. x \in Nat
      BY <1>1 DEF Bps
    <3> HIDE DEF x
    <3>2. (x \div t) * t <= x /\ x < (x \div t) * t + t /\ (x \div t) \in Nat
      BY <1>1, <2>2, <3>1, DivisionType
    <3>3. weight = x \div t
      BY <2>2 DEF x
    <3> HIDE DEF weight
    <3>4. x <= weight * t + t /\ weight * t <= x
      <4>1. weight * t \in Nat
        BY <1>1, <3>2, <3>3, ProductType
      <4> QED BY <1>1, <3>1, <3>2, <3>3, <4>1
    <3> QED
      BY <3>4 DEF x
  <2> QED
    BY <2>1, <2>2
<1> HIDE DEF weight
<1>4. /\ seen'.mnt = m /\ seen'.usdt = wallet.usdt /\ seen'.total = t
      /\ seen'.weight = weight /\ seen'.price = price
  BY <1>2
<1> QED
  BY <1>3, <1>4 DEF SeenIs

LEMMA SightInit == Init => SightInv
BY DEF Init, SightInv

LEMMA SightStep == MoneyInv /\ SightInv /\ [Next]_vars => SightInv'
<1> SUFFICES ASSUME MoneyInv, SightInv, [Next]_vars PROVE SightInv'
  OBVIOUS
<1> DEFINE Away == pc' \notin {"policyPlan", "policyCap", "gatePlan", "gateForce"}
<1>1. Away => SightInv'
  BY DEF SightInv
<1>2. CASE PriceMoves \/ UNCHANGED vars
  BY <1>2 DEF PriceMoves, vars, bank, work, SightInv, SeenIs
<1>3. CASE \/ StartCycle \/ Hold \/ Enter \/ ExitPosition \/ ExitUnwrap
           \/ GuardUnwrap \/ GuardNeedsSwap \/ TopUpPlan \/ TopUpSwap \/ TopUpUnwrap \/ GuardEnds
  BY <1>1, <1>3 DEF StartCycle, Hold, Enter, ExitPosition, ExitUnwrap, GuardUnwrap, GuardNeedsSwap,
                    TopUpPlan, TopUpSwap, TopUpUnwrap, GuardEnds, EndCycle, Goto
<1>4. CASE PolicyContinues \/ PolicyFails \/ PolicyCaps \/ Wrap \/ Swap
  BY <1>1, <1>4 DEF PolicyContinues, PolicyFails, PolicyCaps, PolicyEnds, Execute, Wrap, Swap, Goto
<1>5. CASE PolicyReads
  <2>1. \/ pc' = "select"
        \/ pc' = "policyPlan" /\ seen' = Sight /\ wallet' = wallet
    BY <1>5 DEF PolicyReads, PolicyEnds, Goto, bank
  <2> QED
    BY <1>1, <2>1, SightIs DEF SightInv
<1>6. CASE PolicyPlans
  <2>1. \/ Away
        \/ UNCHANGED <<wallet, seen>> /\ ~swap'.forced /\ pc = "policyPlan"
    <3> DEFINE p == Plan(wallet, price, Target, 0, MinSwap)
               side == SideOfTarget(Target)
    <3>1. \/ PolicyEnds(FALSE)
          \/ \E band : swap' = [by |-> "policy", side |-> side, band |-> band, forced |-> FALSE]
                       /\ UNCHANGED <<cycle, seen>>
      BY <1>6 DEF PolicyPlans
    <3>2. wallet' = wallet /\ pc = "policyPlan"
      BY <1>6 DEF PolicyPlans, bank
    <3> HIDE DEF side
    <3> QED
      BY <3>1, <3>2 DEF PolicyEnds, Goto
  <2>2. Away \/ pc' = "policyCap"
    BY <1>6 DEF PolicyPlans, PolicyEnds, Execute, Goto
  <2> QED
    BY <1>1, <2>1, <2>2 DEF SightInv, SeenIs
<1>7. CASE GateReads
  <2>1. \/ pc' = "allocate"
        \/ pc' = "gatePlan" /\ seen' = Sight /\ wallet' = wallet
    BY <1>7 DEF GateReads, Goto, bank
  <2> QED
    BY <1>1, <2>1, SightIs DEF SightInv
<1>8. CASE \/ SelectEntry \/ ReadBudget \/ GateWaits \/ Refresh \/ StillSkewed
           \/ Allocate \/ TooSmall \/ EntryUnwrap \/ Mint \/ EntryFails
  BY <1>1, <1>8 DEF SelectEntry, ReadBudget, GateWaits, Refresh, StillSkewed, Allocate, TooSmall,
                    EntryUnwrap, Mint, EntryFails, EndCycle, Goto
<1>9. CASE GatePlans
  <2> DEFINE p == Plan(wallet, price, Gate.target, Gate.tolerance, Gate.minTrade)
  <2>1. GateForces(p) \/ GateTrades(p) \/ pc' = "allocate"
    BY <1>9 DEF GatePlans, Goto
  <2>2. UNCHANGED <<wallet, seen>> /\ pc = "gatePlan"
    BY <1>9 DEF GatePlans, bank
  <2> HIDE DEF p
  <2>3. CASE GateForces(p)
    <3>1. pc' = "gateForce" /\ swap'.by = "wide"
      BY <2>3 DEF GateForces, Goto
    <3> QED
      BY <2>2, <3>1 DEF SightInv, SeenIs
  <2> QED
    BY <1>1, <2>1, <2>3 DEF GateTrades, Execute, Goto
<1>10. CASE GateForced
  BY <1>1, <1>10 DEF GateForced, Execute, Goto
<1> QED
  BY <1>2, <1>3, <1>4, <1>5, <1>6, <1>7, <1>8, <1>9, <1>10 DEF Next

(* What a plan trades is what the wallet has too much of one side for its    *)
(* target, rounded down.                                                     *)
LEMMA PlanTrades ==
  ASSUME NEW w \in Wallet, NEW p \in Nat \ {0}, NEW target \in 0..Bps,
         NEW tolerance \in Nat, NEW minTrade \in Nat, NEW q,
         q = Plan(w, p, target, tolerance, minTrade), q.action # "none"
  PROVE  /\ q.trade \in Nat /\ q.trade >= minTrade
         /\ MntValue(w, p) * Bps \in Nat /\ target * TotalValue(w, p) \in Nat
         /\ \/ /\ q.action = "sell_mnt"
               /\ q.trade * Bps <= MntValue(w, p) * Bps - target * TotalValue(w, p)
               /\ MntValue(w, p) * Bps - target * TotalValue(w, p) > 0
            \/ /\ q.action = "buy_mnt"
               /\ q.trade * Bps <= target * TotalValue(w, p) - MntValue(w, p) * Bps
               /\ target * TotalValue(w, p) - MntValue(w, p) * Bps < q.trade * Bps + Bps
<1> DEFINE t == TotalValue(w, p)
           mb == MntValue(w, p) * Bps
           tt == target * t
           excess == Excess(w, p, target)
           trade == (IF excess > 0 THEN excess ELSE -excess) \div Bps
           sold == Serialized(excess, p * Bps)
           wrap == Serialized(Larger(0, excess - w.wmnt * (p * Bps)), p * Bps)
<1>1. mb \in Nat /\ tt \in Nat /\ t \in Nat
  <2>1. MntValue(w, p) \in Nat /\ t \in Nat /\ target \in Nat
    BY ValueType DEF Bps
  <2> HIDE DEF t
  <2> QED
    BY <2>1, ProductType DEF Bps
<1>2. excess = mb - tt
  <2>1. t * target = target * t
    BY ValueType DEF Bps
  <2> QED
    BY <2>1 DEF Excess
<1>3. \/ q = NoTrade("zero", 0)
      \/ q = NoTrade("band", 0)
      \/ q = NoTrade("small", trade)
      \/ excess > 0 /\ ~(trade < minTrade)
           /\ q = [action |-> "sell_mnt", reason |-> "trade", trade |-> trade,
                   amountIn |-> sold, wrap |-> wrap]
      \/ ~(excess > 0) /\ ~(trade < minTrade)
           /\ q = [action |-> "buy_mnt", reason |-> "trade", trade |-> trade,
                   amountIn |-> trade, wrap |-> 0]
  BY DEF Plan
<1>4. /\ ~(trade < minTrade) /\ q.trade = trade
      /\ \/ excess > 0 /\ q.action = "sell_mnt"
         \/ ~(excess > 0) /\ q.action = "buy_mnt"
  <2> HIDE DEF excess, trade, sold, wrap
  <2> QED
    BY <1>3 DEF NoTrade
<1> HIDE DEF mb, tt, t, excess
<1>5. excess \in Int
  BY <1>1, <1>2
<1>6. /\ trade \in Nat
      /\ excess > 0 => trade * 10000 <= excess
      /\ ~(excess > 0) => trade * 10000 <= -excess /\ -excess < trade * 10000 + 10000
  <2>1. CASE excess > 0
    BY <1>5, <2>1 DEF Bps
  <2>2. CASE ~(excess > 0)
    BY <1>5, <2>2 DEF Bps
  <2> QED
    BY <2>1, <2>2
<1> HIDE DEF trade
<1>7. /\ q.trade \in Nat /\ q.trade >= minTrade
      /\ \/ q.action = "sell_mnt" /\ q.trade * 10000 <= mb - tt /\ mb - tt > 0
         \/ /\ q.action = "buy_mnt" /\ q.trade * 10000 <= tt - mb
            /\ tt - mb < q.trade * 10000 + 10000
  BY <1>1, <1>2, <1>4, <1>5, <1>6
<1>8. Bps = 10000
  BY DEF Bps
<1> QED
  BY <1>1, <1>7, <1>8 DEF mb, tt, t

LEMMA SeenFacts ==
  ASSUME MoneyInv
  PROVE  /\ seen.total \in Nat /\ seen.mnt \in Nat /\ seen.usdt \in Nat
         /\ seen.weight \in Nat /\ seen.weight <= 10000
<1>1. seen.total \in Nat /\ seen.mnt \in Nat /\ seen.usdt \in Nat /\ seen.weight \in 0..Bps
  BY MoneyFacts DEF SeenType
<1> QED
  BY <1>1, ShareIsNumber

(* _compute_capped_ratio bounds the way of the ratio, hence the trade. *)
LEMMA CappedBounds ==
  ASSUME NEW weight \in 0..Bps, NEW total \in Nat \ {0}, NEW target \in 0..Bps, NEW side \in Sides,
         NEW delta, delta = (MaxSwap * Bps) \div total,
         NEW ratio, ratio = CappedRatio(weight, total, target, side)
  PROVE  /\ delta \in Nat /\ delta * total <= MaxSwap * Bps
         /\ side = "buy" => ratio <= weight + delta
         /\ side = "sell" => weight <= ratio + delta
<1>1. delta \in Nat /\ delta * total <= MaxSwap * Bps
  <2> DEFINE x == MaxSwap * Bps
  <2>1. x \in Nat
    <3>1. MaxSwap \in Nat
      BY SettingsType
    <3> QED
      BY ONLY <3>1 DEF Bps
  <2> HIDE DEF x
  <2>2. x \div total \in Nat /\ (x \div total) * total <= x
    BY <2>1, DivisionType
  <2> QED
    BY <2>2 DEF x
<1>2. ratio = IF side = "buy" THEN Least(target, weight + delta) ELSE Larger(target, weight - delta)
  BY DEF CappedRatio
<1> QED
  BY <1>1, <1>2 DEF Least, Larger, Bps

LEMMA CapHolds ==
  ASSUME MoneyInv, SeenIs, price = seen.price,
         NEW target \in 0..Bps, NEW delta \in Nat, delta * seen.total <= MaxSwap * Bps,
         NEW q, q = Plan(wallet, price, target, 0, MinSwap), q.action # "none",
         q.action = "buy_mnt" => target <= seen.weight + delta,
         q.action = "sell_mnt" => seen.weight <= target + delta
  PROVE  q.trade * Bps <= MaxSwap * Bps + seen.total
<1> DEFINE t == seen.total
           mb == seen.mnt * Bps
           tt == target * t
           wt == seen.weight * t
           dt == delta * t
           cap == MaxSwap * Bps
<1>1. /\ seen.mnt = MntValue(wallet, price) /\ t = TotalValue(wallet, price)
      /\ wt <= mb /\ mb <= wt + t
  BY DEF SeenIs
<1>2. seen.weight \in Nat /\ target \in Nat /\ t \in Nat
  <2>1. target \in Nat
    BY DEF Bps
  <2> QED
    BY <2>1, SeenFacts
<1>3. tt \in Nat /\ wt \in Nat /\ dt \in Nat /\ cap \in Nat /\ dt <= cap
  <2>1. cap \in Nat
    BY SettingsType DEF Bps
  <2> QED
    BY <1>2, <2>1, ProductType
<1>4. /\ q.trade \in Nat /\ mb \in Nat
      /\ \/ q.action = "sell_mnt" /\ q.trade * Bps <= mb - tt
         \/ q.action = "buy_mnt" /\ q.trade * Bps <= tt - mb
  <2>1. /\ wallet \in Wallet /\ price \in Nat \ {0} /\ MinSwap \in Nat /\ 0 \in Nat
    BY MoneyFacts, SettingsType
  <2>2. /\ q.trade \in Nat
        /\ MntValue(wallet, price) * Bps \in Nat
        /\ \/ /\ q.action = "sell_mnt"
              /\ q.trade * Bps <= MntValue(wallet, price) * Bps - target * TotalValue(wallet, price)
           \/ /\ q.action = "buy_mnt"
              /\ q.trade * Bps <= target * TotalValue(wallet, price) - MntValue(wallet, price) * Bps
    BY ONLY <2>1, PlanTrades, q = Plan(wallet, price, target, 0, MinSwap), q.action # "none",
            target \in 0..Bps
  <2>3. MntValue(wallet, price) = seen.mnt /\ TotalValue(wallet, price) = t
    BY <1>1
  <2> HIDE DEF t
  <2> QED
    BY ONLY <2>2, <2>3
<1>5. q.action = "buy_mnt" => tt <= wt + dt
  <2> SUFFICES ASSUME q.action = "buy_mnt" PROVE tt <= wt + dt
    OBVIOUS
  <2>1. tt <= (seen.weight + delta) * t
    BY <1>2, ProductMonotone
  <2>2. (seen.weight + delta) * t = wt + dt
    BY <1>2
  <2> QED
    BY <2>1, <2>2
<1>6. q.action = "sell_mnt" => wt <= tt + dt
  <2> SUFFICES ASSUME q.action = "sell_mnt" PROVE wt <= tt + dt
    OBVIOUS
  <2>1. wt <= (target + delta) * t
    BY <1>2, ProductMonotone
  <2>2. (target + delta) * t = tt + dt
    BY <1>2
  <2> QED
    BY <2>1, <2>2
<1> DEFINE traded == q.trade * Bps
<1>7. traded \in Nat
  BY <1>4 DEF Bps
<1> HIDE DEF t, mb, tt, wt, dt, cap, traded
<1>8. \/ q.action = "sell_mnt" /\ traded <= mb - tt
      \/ q.action = "buy_mnt" /\ traded <= tt - mb
  BY <1>4 DEF traded
<1>9. traded <= cap + t
  BY <1>1, <1>2, <1>3, <1>4, <1>5, <1>6, <1>7, <1>8
<1> QED
  BY <1>9 DEF traded, cap, t

(* The forced swap of the gate goes half a thousand basis points from the    *)
(* weight that was read, or less, or from the edge to the clamp.             *)
LEMMA ForcedIsSmall ==
  ASSUME MoneyInv, SeenIs, price = seen.price,
         NEW q, q = Plan(wallet, price, ForcedTarget(swap.side), 0, Gate.viable), q.action # "none"
  PROVE  10 * q.trade <= seen.total
<1> DEFINE t == seen.total
           mb == seen.mnt * Bps
           w == seen.weight
           f == ForcedTarget(swap.side)
           ft == f * t
           wt == w * t
<1>1. /\ seen.mnt = MntValue(wallet, price) /\ t = TotalValue(wallet, price)
      /\ wt <= mb /\ mb <= wt + t
  BY DEF SeenIs
<1>2. t \in Nat /\ w \in Nat /\ w <= 10000
  BY SeenFacts
<1>3. mb \in Nat /\ mb <= 10000 * t
  <2>1. MntValue(wallet, price) \in Nat /\ MntValue(wallet, price) <= TotalValue(wallet, price)
    BY MoneyFacts, ValueType
  <2>2. seen.mnt \in Nat /\ seen.mnt <= t
    BY <1>1, <2>1
  <2> HIDE DEF t
  <2> QED
    BY <1>2, <2>2 DEF Bps
<1>4. f \in Nat /\ f <= 10000 /\ f <= w + 1000 /\ (f = 9000 \/ w <= f + 999)
  <2>1. PICK e \in Int : -500 <= e /\ e <= 500 /\ f = Larger(1000, Least(9000, w + e))
    BY DEF ForcedTarget
  <2>2. w \in Nat /\ w <= 10000
    BY <1>2
  <2> HIDE DEF f, w
  <2>3. PICK g : g = Larger(1000, Least(9000, w + e))
    OBVIOUS
  <2>4. g \in Nat /\ g <= 10000 /\ g <= w + 1000 /\ (g = 9000 \/ w <= g + 999)
    BY <2>1, <2>2, <2>3 DEF Larger, Least
  <2> QED
    BY <2>1, <2>3, <2>4
<1>5. ft \in Nat /\ wt \in Nat
  <2> HIDE DEF t, f, w
  <2> QED BY <1>2, <1>4, ProductType
<1>6. ft <= wt + 1000 * t
  <2> HIDE DEF t, f, w
  <2>1. f * t <= (w + 1000) * t
    BY <1>2, <1>4, ProductMonotone
  <2>2. (w + 1000) * t = w * t + 1000 * t
    BY <1>2
  <2> QED
    BY <2>1, <2>2
<1>7. mb <= ft + 1000 * t
  <2>1. CASE f = 9000
    <3>1. ft = 9000 * t
      BY <2>1
    <3> HIDE DEF t, mb, ft
    <3> QED
      BY <1>2, <1>3, <1>5, <3>1
  <2>2. CASE w <= f + 999
    <3>1. wt <= (f + 999) * t
      <4> HIDE DEF t, f, w
      <4> QED BY <1>2, <1>4, <2>2, ProductMonotone DEF wt
    <3>2. (f + 999) * t = ft + 999 * t
      <4> HIDE DEF t, f
      <4> QED BY <1>2, <1>4
    <3> HIDE DEF t, mb, ft, wt
    <3> QED
      BY <1>1, <1>2, <1>3, <1>5, <3>1, <3>2
  <2> QED
    BY <1>4, <2>1, <2>2
<1>8. /\ q.trade \in Nat
      /\ q.trade * 10000 <= mb - ft \/ q.trade * 10000 <= ft - mb
  <2>1. wallet \in Wallet /\ price \in Nat \ {0} /\ 0 \in Nat /\ Gate.viable \in Nat
    BY MoneyFacts, GateType
  <2>2. q = Plan(wallet, price, f, 0, Gate.viable) /\ q.action # "none" /\ f \in 0..Bps
    BY ForcedTargetType
  <2> HIDE DEF f
  <2>3. /\ q.trade \in Nat
        /\ \/ q.trade * Bps <= MntValue(wallet, price) * Bps - f * TotalValue(wallet, price)
           \/ q.trade * Bps <= f * TotalValue(wallet, price) - MntValue(wallet, price) * Bps
    BY ONLY <2>1, <2>2, PlanTrades
  <2>4. MntValue(wallet, price) = seen.mnt /\ TotalValue(wallet, price) = t /\ Bps = 10000
    BY <1>1 DEF Bps
  <2> HIDE DEF t
  <2> QED
    BY ONLY <2>3, <2>4
<1> HIDE DEF t, mb, ft, wt
<1>9. q.trade * 10000 <= 1000 * t
  BY <1>1, <1>2, <1>3, <1>5, <1>6, <1>7, <1>8
<1> QED
  BY <1>2, <1>8, <1>9 DEF t

(* The steps that carry a plan out which was made from what was read. *)
LEMMA JudgedSteps ==
  ASSUME Next, pc \in {"policyPlan", "policyCap", "gateForce"}, pc' \in {"wrap", "swap"}
  PROVE  PolicyPlans \/ PolicyCaps \/ GateForced
<1>1. ~(PriceMoves \/ StartCycle \/ Hold \/ Enter \/ ExitPosition \/ ExitUnwrap)
  BY DEF PriceMoves, StartCycle, Hold, Enter, ExitPosition, ExitUnwrap
<1>2. ~(GuardUnwrap \/ GuardNeedsSwap \/ TopUpPlan \/ TopUpSwap \/ TopUpUnwrap \/ GuardEnds)
  BY DEF GuardUnwrap, GuardNeedsSwap, TopUpPlan, TopUpSwap, TopUpUnwrap, GuardEnds
<1>3. ~(PolicyContinues \/ PolicyReads \/ PolicyFails \/ Wrap \/ Swap)
  BY DEF PolicyContinues, PolicyReads, PolicyFails, PolicyEnds, Goto, Wrap, Swap
<1>4. ~(SelectEntry \/ ReadBudget \/ GateReads \/ GatePlans \/ GateWaits \/ Refresh \/ StillSkewed)
  BY DEF SelectEntry, ReadBudget, GateReads, GatePlans, GateWaits, EndCycle, Goto, Refresh, StillSkewed
<1>5. ~(Allocate \/ TooSmall \/ EntryUnwrap \/ Mint \/ EntryFails)
  BY DEF Allocate, TooSmall, EntryUnwrap, Mint, EntryFails, EndCycle, Goto
<1> QED
  BY <1>1, <1>2, <1>3, <1>4, <1>5 DEF Next

LEMMA PolicyWithinCap ==
  ASSUME MoneyInv, SightInv, PolicyPlans, pc' \in {"wrap", "swap"}, price = seen.price,
         MaxSwap > 0, swap'.side = SideOfPlan(plan')
  PROVE  plan'.trade * Bps <= MaxSwap * Bps + seen.total
<1> DEFINE p == Plan(wallet, price, Target, 0, MinSwap)
           side == SideOfTarget(Target)
           ratio == CappedRatio(seen.weight, seen.total, Target, side)
<1>1. /\ SeenIs /\ Target \in 0..Bps /\ MaxSwap \in Nat /\ MinSwap \in Nat
      /\ seen.total \in Nat /\ seen.weight \in 0..Bps
  BY TargetNow, SettingsType, MoneyFacts, SeenFacts DEF SightInv, PolicyPlans, SeenType
<1>2. PICK band : /\ p.action # "none" /\ Execute(p)
                  /\ swap' = [by |-> "policy", side |-> side, band |-> band, forced |-> FALSE]
                  /\ ~(p.trade > MaxSwap /\ seen.total > 0 /\ ratio # Target)
  BY DEF PolicyPlans, PolicyEnds, Goto
<1>3. plan' = p /\ side = SideOfPlan(p)
  BY <1>2 DEF Execute
<1>4. p.trade \in Nat
  <2>1. 0 \in Nat /\ wallet \in Wallet /\ price \in Nat \ {0}
    BY MoneyFacts
  <2>2. p \in PlanType
    BY <1>1, <2>1, PlanMade
  <2> HIDE DEF p
  <2> QED
    BY <2>2 DEF PlanType
<1> HIDE DEF p, ratio
<1>5. CASE ~(p.trade > MaxSwap)
  <2>1. MaxSwap \in Nat /\ seen.total \in Nat
    BY <1>1
  <2>2. p.trade * Bps <= MaxSwap * Bps + seen.total
    BY ONLY <1>4, <1>5, <2>1 DEF Bps
  <2> QED
    BY <1>3, <2>2
<1>6. CASE seen.total = 0
  <2>1. p.trade * Bps <= MaxSwap * Bps + seen.total
    <3>1. MntValue(wallet, price) \in Nat /\ MntValue(wallet, price) <= TotalValue(wallet, price)
      BY MoneyFacts, ValueType
    <3>2. TotalValue(wallet, price) = 0 /\ MntValue(wallet, price) = 0
      BY <1>1, <1>6, <3>1 DEF SeenIs
    <3>3. p = NoTrade("zero", 0)
      BY <3>2 DEF p, Plan
    <3> QED
      BY <1>2, <3>3 DEF NoTrade
  <2> QED
    BY <1>3, <2>1
<1>7. CASE seen.total > 0 /\ ratio = Target
  <2>1. side \in Sides /\ seen.total \in Nat \ {0}
    BY <1>1, <1>7 DEF SideOfTarget, Sides
  <2>2. PICK delta : delta = (MaxSwap * Bps) \div seen.total
    OBVIOUS
  <2>3. /\ delta \in Nat /\ delta * seen.total <= MaxSwap * Bps
        /\ side = "buy" => Target <= seen.weight + delta
        /\ side = "sell" => seen.weight <= Target + delta
    BY <1>1, <1>7, <2>1, <2>2, CappedBounds DEF ratio
  <2>4. /\ p.action = "buy_mnt" => side = "buy"
        /\ p.action = "sell_mnt" => side = "sell"
    BY <1>3 DEF SideOfPlan
  <2>5. p.trade * Bps <= MaxSwap * Bps + seen.total
    BY <1>1, <1>2, <2>3, <2>4, CapHolds DEF p
  <2> QED
    BY <1>3, <2>5
<1> QED
  BY <1>1, <1>2, <1>5, <1>6, <1>7

LEMMA CapWithinCap ==
  ASSUME MoneyInv, SightInv, PolicyCaps, pc' \in {"wrap", "swap"}, price = seen.price,
         MaxSwap > 0, swap'.side = SideOfPlan(plan')
  PROVE  plan'.trade * Bps <= MaxSwap * Bps + seen.total
<1> DEFINE ratio == CappedRatio(seen.weight, seen.total, Target, swap.side)
           p == Plan(wallet, price, ratio, 0, MinSwap)
<1>1. /\ SeenIs /\ Target \in 0..Bps /\ MaxSwap \in Nat /\ MinSwap \in Nat
      /\ seen.weight \in 0..Bps /\ swap.side \in Sides
  BY TargetNow, SettingsType, MoneyFacts DEF SightInv, PolicyCaps, SeenType
<1>2. seen.total \in Nat \ {0}
  BY SeenFacts DEF PolicyCaps, MoneyInv
<1>3. p.action # "none" /\ Execute(p) /\ swap' = swap
  BY DEF PolicyCaps, PolicyEnds, Goto
<1>4. plan' = p /\ swap.side = SideOfPlan(p)
  BY <1>3 DEF Execute
<1> HIDE DEF p, ratio
<1>5. PICK delta : delta = (MaxSwap * Bps) \div seen.total
  OBVIOUS
<1>6. /\ delta \in Nat /\ delta * seen.total <= MaxSwap * Bps
      /\ swap.side = "buy" => ratio <= seen.weight + delta
      /\ swap.side = "sell" => seen.weight <= ratio + delta
  BY <1>1, <1>2, <1>5, CappedBounds DEF ratio
<1>7. ratio \in 0..Bps
  BY <1>1, <1>2, CappedType DEF ratio
<1>8. /\ p.action = "buy_mnt" => swap.side = "buy"
      /\ p.action = "sell_mnt" => swap.side = "sell"
  BY <1>4 DEF SideOfPlan
<1>9. p.trade * Bps <= MaxSwap * Bps + seen.total
  BY <1>1, <1>3, <1>6, <1>7, <1>8, CapHolds DEF p
<1> QED
  BY <1>4, <1>9

(* A swap of the policy stays within reentry_max_swap_usdt, a basis point of *)
(* the wallet apart, and the forced swap of the gate moves a tenth of the    *)
(* wallet at most, whatever the settings of the gate are.                    *)
THEOREM CapitalSwapWithinCap == Spec => SwapWithinCap
<1>1. MoneyInv /\ SightInv /\ [Next]_vars
        => [(pc \in {"policyPlan", "policyCap", "gateForce"} /\ pc' \in {"wrap", "swap"}
              /\ price = seen.price) =>
             (/\ swap'.forced => 10 * plan'.trade <= seen.total
              /\ swap'.by = "policy" /\ MaxSwap > 0 /\ swap'.side = SideOfPlan(plan')
                   => plan'.trade * Bps <= MaxSwap * Bps + seen.total)]_vars
  <2> SUFFICES ASSUME MoneyInv, SightInv, Next, price = seen.price,
                      pc \in {"policyPlan", "policyCap", "gateForce"}, pc' \in {"wrap", "swap"}
               PROVE  /\ swap'.forced => 10 * plan'.trade <= seen.total
                      /\ swap'.by = "policy" /\ MaxSwap > 0 /\ swap'.side = SideOfPlan(plan')
                           => plan'.trade * Bps <= MaxSwap * Bps + seen.total
    OBVIOUS
  <2>1. CASE PolicyPlans
    <3>1. ~swap'.forced
      <4> DEFINE side == SideOfTarget(Target)
      <4>1. \E band : swap' = [by |-> "policy", side |-> side, band |-> band, forced |-> FALSE]
        BY <2>1 DEF PolicyPlans, PolicyEnds, Goto
      <4> HIDE DEF side
      <4> QED
        BY <4>1
    <3> QED
      BY <2>1, <3>1, PolicyWithinCap
  <2>2. CASE PolicyCaps
    <3>1. swap' = swap /\ ~swap.forced
      BY <2>2 DEF PolicyCaps, PolicyEnds, Goto, SightInv
    <3> QED
      BY <2>2, <3>1, CapWithinCap
  <2>3. CASE GateForced
    <3> DEFINE small == Plan(wallet, price, ForcedTarget(swap.side), 0, Gate.viable)
    <3>1. /\ small.action # "none" /\ plan' = small /\ swap' = swap
          /\ SeenIs /\ swap.by = "wide"
      BY <2>3 DEF GateForced, Goto, Execute, SightInv
    <3>2. 10 * small.trade <= seen.total
      BY <3>1, ForcedIsSmall
    <3> QED
      BY <3>1, <3>2
  <2> QED
    BY <2>1, <2>2, <2>3, JudgedSteps
<1> QED
  BY <1>1, SightInit, SightStep, MoneyAlways, PTL DEF Spec, SwapWithinCap
=============================================================================
