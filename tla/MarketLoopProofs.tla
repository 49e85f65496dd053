--------------------------- MODULE MarketLoopProofs ---------------------------
(***************************************************************************)
(* What holds of the engine in the loop for every set of prices and of     *)
(* weathers and every setting: the bot does not undo its own entries, and  *)
(* takes only those it sees too late for the owner's.                      *)
(***************************************************************************)
EXTENDS MarketLoop, TLAPS

LEMMA ConstantsType ==
    /\ Poll \in Nat \ {0} /\ Window \in Nat \ {0} /\ Upside \in Int
    /\ ActiveBins \subseteq Int /\ OwnersRange \in [lo : Int, hi : Int]
    /\ \A w \in Weathers : w.width \in Nat /\ w.dayAtr \in Nat
BY LoopAssumption

-----------------------------------------------------------------------------
(* The numbers of bins: those of the entries, and the one the engine        *)
(* measures a position by, which knows the regime.                          *)
LEMMA NarrowCounts ==
    ASSUME NEW width \in Nat
    PROVE  NarrowBins(width) = 0 \/ NarrowBins(width) \in 6..30
BY DEF NarrowBins, Clamp, Larger, Smaller

LEMMA WideCounts ==
    ASSUME NEW width \in Nat, NEW atr \in Nat, NEW regime
    PROVE  /\ WideParams(width, atr, "any") \in 40..200
           /\ WideParams(width, atr, regime) \in 40..200
           /\ WideParams(width, atr, "any") <= WideParams(width, atr, regime)
           /\ 10 * WideParams(width, atr, regime) <= 13 * WideParams(width, atr, "any")
<1> DEFINE bins == Clamp(40, 200, Larger(5 * width, atr))
<1>1. bins \in 40..200
  BY DEF Clamp, Larger, Smaller
<1>2. WideParams(width, atr, "any") = bins
  BY DEF WideParams, MinWideBins, MaxWideBins
<1>3. WideParams(width, atr, regime) \in {bins, Smaller(200, (bins * 13) \div 10)}
  BY DEF WideParams, MinWideBins, MaxWideBins
<1> HIDE DEF bins
<1>4. /\ Smaller(200, (bins * 13) \div 10) \in 40..200
      /\ bins <= Smaller(200, (bins * 13) \div 10)
      /\ 10 * Smaller(200, (bins * 13) \div 10) <= 13 * bins
  BY <1>1 DEF Smaller
<1> QED
  BY <1>1, <1>2, <1>3, <1>4

LEMMA ChannelTyped ==
    ASSUME NEW w \in Weathers
    PROVE  Channel(w).width \in Nat /\ DailyAtr(w) \in Nat
<1>1. w.width \in Nat /\ w.dayAtr \in Nat
  BY ConstantsType
<1>2. DailyAtr(w) \in Nat
  BY <1>1 DEF DailyAtr
<1>3. Channel(w).width \in Nat
  BY <1>1 DEF Channel, DefaultChannel
<1> QED
  BY <1>2, <1>3

LEMMA ViewIs ==
    ASSUME NEW w \in Weathers
    PROVE  /\ View[w].width = Channel(w).width
           /\ View[w].atr \in {0, DailyAtr(w)}
BY DEF View, MarketState

LEMMA EntryCounts ==
    ASSUME NEW w \in Weathers, NEW strategy
    PROVE  EntryBins(View[w], strategy) \in Nat
<1>1. View[w].width \in Nat /\ View[w].atr \in Nat
  BY ViewIs, ChannelTyped
<1>2. WideParams(View[w].width, View[w].atr, "any") \in 40..200
  BY <1>1, WideCounts
<1>3. NarrowBins(View[w].width) = 0 \/ NarrowBins(View[w].width) \in 6..30
  BY <1>1, NarrowCounts
<1> QED
  BY <1>2, <1>3 DEF EntryBins

-----------------------------------------------------------------------------
(* Where an entry lies around the active bin: it has as many bins as asked  *)
(* for, and the active one is among them.                                   *)
Spot(count, at) ==
    [lo |-> at + RightBins(count, Upside) + 1 - count,
     hi |-> at + RightBins(count, Upside)]

LEMMA RightBounds ==
    ASSUME NEW count \in Nat \ {0}
    PROVE  RightBins(count, Upside) \in 0..(count - 1)
<1> DEFINE share == Clamp(10, 90, Upside)
<1>1. share \in 10..90
  BY ConstantsType DEF Clamp, Larger, Smaller
<1> HIDE DEF share
<1> DEFINE part == count * share
<1>2. part \in Nat /\ part <= count * 90
  BY <1>1
<1> HIDE DEF part
<1>3. part \div 100 \in 0..(count - 1)
  BY <1>2
<1> QED
  BY <1>3 DEF RightBins, part, share

(* An entry of at least six bins with between a quarter and three quarters  *)
(* of them above the price leaves 15 percent of it on either side.          *)
LEMMA Headroom ==
    ASSUME NEW count \in 6..30, Upside \in 25..74
    PROVE  /\ 100 * RightBins(count, Upside) >= 15 * (count - 1)
           /\ 100 * (count - 1 - RightBins(count, Upside)) >= 15 * (count - 1)
<1>1. RightBins(count, Upside) = (count * Upside) \div 100
  BY DEF RightBins, Clamp, Larger, Smaller
<1> DEFINE part == count * Upside
<1>2. part \in Nat /\ part >= count * 25 /\ part <= count * 74
  OBVIOUS
<1> HIDE DEF part
<1>3. /\ 100 * (part \div 100) >= 15 * (count - 1)
      /\ 100 * (count - 1 - (part \div 100)) >= 15 * (count - 1)
  BY <1>2
<1> QED
  BY <1>1, <1>3 DEF part

(* What the engine measures of an entry: its size, the distances of the     *)
(* price from its ends.                                                     *)
LEMMA SpotMeasures ==
    ASSUME NEW count \in Nat \ {0}, NEW at \in Int
    PROVE  /\ Spot(count, at) \in [lo : Int, hi : Int]
           /\ Spot(count, at) # NoPosition
           /\ Size(Spot(count, at)) = count
           /\ InRange(Spot(count, at), at)
           /\ at - Spot(count, at).lo = count - 1 - RightBins(count, Upside)
           /\ Spot(count, at).hi - at = RightBins(count, Upside)
           /\ Spot(count, at).hi - Spot(count, at).lo = count - 1
<1> DEFINE right == RightBins(count, Upside)
           spot  == [lo |-> at + right + 1 - count, hi |-> at + right]
<1>1. right \in 0..(count - 1)
  BY RightBounds
<1> HIDE DEF right
<1>2. spot.lo = at + right + 1 - count /\ spot.hi = at + right
  OBVIOUS
<1>3. spot \in [lo : Int, hi : Int] /\ spot.lo <= at /\ at <= spot.hi
  BY <1>1
<1>4. spot # NoPosition
  <2>1. NoPosition.lo = 0 /\ NoPosition.hi = -1
    BY DEF NoPosition
  <2> QED
    BY <2>1, <1>1, <1>2
<1>5. Size(spot) = count
  BY <1>1, <1>2 DEF Size
<1>6. InRange(spot, at)
  BY <1>1, <1>2 DEF InRange
<1>7. at - spot.lo = count - 1 - right /\ spot.hi - at = right /\ spot.hi - spot.lo = count - 1
  BY <1>1, <1>2
<1> QED
  BY <1>3, <1>4, <1>5, <1>6, <1>7 DEF Spot, right

(* The numbers of an entry and the number a position is measured by come    *)
(* from two computations; an entry is never beyond three times that number, *)
(* and only a narrow one is below a quarter of it.                          *)
LEMMA EntryFits ==
    ASSUME NEW w \in Weathers, NEW strategy \in {"narrow", "wide"},
           EntryBins(View[w], strategy) > 0
    PROVE  LET count   == EntryBins(View[w], strategy)
               optimal == OptimalBins(View[w])
           IN  /\ count \in Nat \ {0} /\ optimal \in 40..200
               /\ count <= 3 * optimal
               /\ 4 * count < optimal => count \in 6..30
<1> DEFINE width  == View[w].width
           atr    == View[w].atr
           regime == View[w].regime
<1>1. width \in Nat /\ atr \in Nat
  BY ViewIs, ChannelTyped
<1> HIDE DEF width, atr, regime
<1>2. /\ WideParams(width, atr, "any") \in 40..200
      /\ WideParams(width, atr, regime) \in 40..200
      /\ WideParams(width, atr, "any") <= WideParams(width, atr, regime)
      /\ 10 * WideParams(width, atr, regime) <= 13 * WideParams(width, atr, "any")
  BY <1>1, WideCounts
<1>3. OptimalBins(View[w]) = WideParams(width, atr, regime)
  BY DEF OptimalBins, width, atr, regime
<1>4. CASE strategy = "wide"
  <2>1. EntryBins(View[w], strategy) = WideParams(width, atr, "any")
    BY <1>4 DEF EntryBins, width, atr
  <2> DEFINE any == WideParams(width, atr, "any")
             own == WideParams(width, atr, regime)
  <2>2. any \in 40..200 /\ own \in 40..200 /\ any <= own /\ 10 * own <= 13 * any
    BY <1>2
  <2> HIDE DEF any, own
  <2>3. any \in Nat \ {0} /\ any <= 3 * own /\ ~(4 * any < own)
    BY <2>2
  <2> QED
    BY <2>1, <2>2, <2>3, <1>3 DEF any, own
<1>5. CASE strategy = "narrow"
  <2>1. EntryBins(View[w], strategy) = NarrowBins(width)
    BY <1>5 DEF EntryBins, width
  <2>2. NarrowBins(width) \in 6..30
    BY <2>1, <1>1, NarrowCounts
  <2> QED
    BY <2>1, <2>2, <1>2, <1>3
<1> QED
  BY <1>4, <1>5

(* The engine holds what it has just entered, in any weather.               *)
LEMMA EntryIsHeld ==
    ASSUME NEW w \in Weathers, NEW strategy \in {"narrow", "wide"}, NEW at \in Int,
           EntryBins(View[w], strategy) > 0, Upside \in 25..74
    PROVE  SelectStrategy(Spot(EntryBins(View[w], strategy), at), at, View[w]) = "hold"
<1> DEFINE count   == EntryBins(View[w], strategy)
           optimal == OptimalBins(View[w])
           spot    == Spot(count, at)
           right   == RightBins(count, Upside)
<1>1. /\ count \in Nat \ {0} /\ optimal \in 40..200 /\ count <= 3 * optimal
      /\ 4 * count < optimal => count \in 6..30
  BY EntryFits
<1>2. right \in 0..(count - 1)
  BY <1>1, RightBounds
<1>3. 4 * count < optimal => /\ 100 * right >= 15 * (count - 1)
                             /\ 100 * (count - 1 - right) >= 15 * (count - 1)
  BY <1>1, Headroom
<1> HIDE DEF count, optimal, right
<1>4. /\ spot \in [lo : Int, hi : Int] /\ spot # NoPosition
      /\ Size(spot) = count /\ InRange(spot, at)
      /\ at - spot.lo = count - 1 - right /\ spot.hi - at = right
      /\ spot.hi - spot.lo = count - 1
  BY <1>1, SpotMeasures DEF right
<1> HIDE DEF spot
<1>5. ~AtEdge(spot, at)
  BY <1>2, <1>4 DEF AtEdge, EdgeMargin
<1>6. ~(Size(spot) > 3 * optimal)
  BY <1>1, <1>4
<1>7. 4 * Size(spot) < optimal =>
        100 * Smaller(at - spot.lo, spot.hi - at) >= 15 * (spot.hi - spot.lo)
  BY <1>3, <1>4 DEF Smaller
<1>8. /\ 100 * Smaller(at - spot.lo, spot.hi - at) \in Int
      /\ 15 * (spot.hi - spot.lo) \in Int
  BY <1>4 DEF Smaller
<1>9. ~Unfit(spot, at, optimal)
  <2> DEFINE room == 100 * Smaller(at - spot.lo, spot.hi - at)
             wide == 15 * (spot.hi - spot.lo)
  <2>1. room \in Int /\ wide \in Int /\ (4 * Size(spot) < optimal => room >= wide)
    BY <1>7, <1>8
  <2>2. Unfit(spot, at, optimal) <=>
          \/ AtEdge(spot, at) \/ Size(spot) > 3 * optimal
          \/ 4 * Size(spot) < optimal /\ spot.hi > spot.lo /\ room < wide
    BY DEF Unfit
  <2> HIDE DEF room, wide
  <2>3. ~(room >= wide /\ room < wide)
    BY <2>1
  <2> QED
    BY <1>5, <1>6, <2>1, <2>2, <2>3
<1>10. Stay(spot, at, View[w])
  BY <1>4, <1>9 DEF Stay, optimal
<1> QED
  BY <1>4, <1>10 DEF SelectStrategy, spot, count

-----------------------------------------------------------------------------
(* The loop.  What is true in every state: the types, and that a decision   *)
(* is about the position that is there or takes it for none; what is        *)
(* entered over such a residue is not fresh.                                *)
Place == [lo : Int, hi : Int]
Entry == [strategy : {"narrow", "wide"}, bins : Nat \ {0}]

LoopTyped ==
    /\ active \in Int /\ weather \in Weathers
    /\ pos \in Place
    /\ DOMAIN reg = {"narrow", "wide"} /\ \A t \in {"narrow", "wide"} : reg[t] \in Place
    /\ plan \subseteq Entry

LookIsTrue ==
    /\ step = "decide" => \A look \in seen : look.pos \in {pos, NoPosition}
    /\ step = "enter" /\ fresh => pos = NoPosition

(* As long as the market is the one the entry was chosen for, the plan is   *)
(* the number of bins of this weather, and the position lies where this     *)
(* weather and this price put it.                                           *)
FreshIsOfNow ==
    fresh => /\ \A p \in plan : p.bins = EntryBins(View[weather], p.strategy)
             /\ pos # NoPosition =>
                    \E strategy \in {"narrow", "wide"} :
                        /\ EntryBins(View[weather], strategy) > 0
                        /\ pos = Spot(EntryBins(View[weather], strategy), active)

LoopInv == LoopTyped /\ LookIsTrue /\ FreshIsOfNow

LEMMA NoPositionType == NoPosition \in Place
BY DEF NoPosition, Place

LEMMA LoopInit == Init => LoopInv
<1> SUFFICES ASSUME Init PROVE LoopInv
  OBVIOUS
<1>1. reg = [narrow |-> NoPosition, wide |-> NoPosition]
  BY DEF Init
<1>2. DOMAIN reg = {"narrow", "wide"} /\ \A t \in {"narrow", "wide"} : reg[t] \in Place
  BY <1>1, NoPositionType
<1>3. LoopTyped
  BY <1>2, ConstantsType, NoPositionType DEF Init, LoopTyped
<1>4. LookIsTrue /\ FreshIsOfNow
  BY DEF Init, LookIsTrue, FreshIsOfNow
<1> QED
  BY <1>3, <1>4 DEF LoopInv

(* A fresh plan is made where nothing lies, and of the weather it is made   *)
(* in.                                                                      *)
LEMMA PlanKeepsLoop ==
    ASSUME LoopInv, NEW strategy \in {"narrow", "wide"}, PlanEntry(strategy),
           UNCHANGED <<active, weather, pos, reg>>
    PROVE  LoopInv'
<1> DEFINE bins == EntryBins(View[weather], strategy)
<1>1. weather \in Weathers
  BY DEF LoopInv, LoopTyped
<1>2. bins \in Nat
  BY <1>1, EntryCounts
<1>3. /\ plan' = {[strategy |-> strategy, bins |-> bins]} \ {[strategy |-> strategy, bins |-> 0]}
      /\ step' \in {"enter", "sleep"}
      /\ fresh' => pos = NoPosition
  BY DEF PlanEntry
<1>4. View' = View
  BY DEF View
<1> HIDE DEF bins
<1>5. \A p \in plan' : /\ p = [strategy |-> strategy, bins |-> bins]
                       /\ p # [strategy |-> strategy, bins |-> 0]
  BY <1>3
<1>6. \A p \in plan' : p \in Entry /\ p.strategy = strategy /\ p.bins = bins
  BY <1>2, <1>5 DEF Entry
<1>7. LoopTyped'
  BY <1>6 DEF LoopInv, LoopTyped
<1>8. LookIsTrue'
  BY <1>3 DEF LookIsTrue
<1>9. FreshIsOfNow'
  BY <1>3, <1>4, <1>6 DEF FreshIsOfNow, bins
<1> QED
  BY <1>7, <1>8, <1>9 DEF LoopInv

LEMMA HullType ==
    ASSUME NEW p \in Place, NEW q \in Place
    PROVE  Hull(p, q) \in Place
BY DEF Hull, Place, Smaller, Larger

LEMMA EnterKeepsLoop == LoopInv /\ Enter => LoopInv'
<1> SUFFICES ASSUME LoopInv, Enter
             PROVE  LoopInv'
  OBVIOUS
<1>1. /\ step = "enter" /\ step' = "sleep" /\ plan' = {}
      /\ active' = active /\ weather' = weather
  BY DEF Enter, Sleep, market
<1>2. View' = View
  BY DEF View
<1>3. CASE fresh' = FALSE /\ UNCHANGED <<pos, reg>>
  BY <1>1, <1>3 DEF LoopInv, LoopTyped, LookIsTrue, FreshIsOfNow
<1>4. CASE fresh' = fresh /\
           \E p \in plan :
             LET right == active + RightBins(p.bins, Upside)
                 range == [lo |-> right + 1 - p.bins, hi |-> right]
             IN  /\ pos' = Hull(pos, range)
                 /\ reg' = [reg EXCEPT ![p.strategy] = Hull(@, range)]
  <2>1. PICK p \in plan :
             LET right == active + RightBins(p.bins, Upside)
                 range == [lo |-> right + 1 - p.bins, hi |-> right]
             IN  /\ pos' = Hull(pos, range)
                 /\ reg' = [reg EXCEPT ![p.strategy] = Hull(@, range)]
    BY <1>4
  <2> DEFINE spot == Spot(p.bins, active)
  <2>2. p \in Entry /\ active \in Int /\ weather \in Weathers
    BY DEF LoopInv, LoopTyped
  <2>3. p.bins \in Nat \ {0} /\ p.strategy \in {"narrow", "wide"}
    BY <2>2 DEF Entry
  <2>4. pos' = Hull(pos, spot) /\ reg' = [reg EXCEPT ![p.strategy] = Hull(@, spot)]
    BY <2>1 DEF Spot
  <2>5. spot \in Place
    BY <2>2, <2>3, SpotMeasures DEF Place
  <2> HIDE DEF spot
  <2>6. /\ DOMAIN reg' = {"narrow", "wide"}
        /\ \A t \in {"narrow", "wide"} : reg'[t] \in Place
    BY <2>3, <2>4, <2>5, HullType DEF LoopInv, LoopTyped
  <2>7. LoopTyped'
    BY <1>1, <2>2, <2>4, <2>5, <2>6, HullType DEF LoopInv, LoopTyped
  <2>8. FreshIsOfNow'
    <3> SUFFICES ASSUME fresh'
                 PROVE  \E strategy \in {"narrow", "wide"} :
                          /\ EntryBins(View[weather], strategy) > 0
                          /\ spot = Spot(EntryBins(View[weather], strategy), active)
      <4>1. fresh' => pos' = spot
        BY <1>1, <1>4, <2>4 DEF Hull, LoopInv, LookIsTrue
      <4> QED
        BY <1>1, <1>2, <4>1 DEF FreshIsOfNow
    <3>1. p.bins = EntryBins(View[weather], p.strategy)
      BY <1>4 DEF LoopInv, FreshIsOfNow
    <3> QED
      BY <2>3, <3>1 DEF spot
  <2> QED
    BY <1>1, <2>7, <2>8 DEF LoopInv, LookIsTrue
<1> QED
  BY <1>3, <1>4 DEF Enter

LEMMA LoopStep == LoopInv /\ [Next]_vars => LoopInv'
<1> SUFFICES ASSUME LoopInv, [Next]_vars
             PROVE  LoopInv'
  OBVIOUS
<1>1. View' = View
  BY DEF View
<1>2. CASE Prepare
  <2>1. PICK worth : seen' = {[pos |-> Normalized(worth), active |-> active]}
    BY <1>2 DEF Prepare
  <2>2. step' = "decide" /\ UNCHANGED <<active, weather, pos, plan, reg, fresh>>
    BY <1>2 DEF Prepare, market
  <2>3. LookIsTrue'
    BY <2>1, <2>2 DEF LookIsTrue, Normalized
  <2> QED
    BY <1>1, <2>2, <2>3 DEF LoopInv, LoopTyped, FreshIsOfNow
<1>3. CASE Decide
  <2>1. PICK look \in seen :
          \/ /\ step' \in {"sleep", "exit"}
             /\ UNCHANGED <<plan, history>>
          \/ /\ Answer(look.pos, look.active) \in {"narrow", "wide"}
             /\ PlanEntry(Answer(look.pos, look.active))
    BY <1>3 DEF Decide, Sleep
  <2>2. UNCHANGED <<active, weather, pos, reg>>
    BY <1>3 DEF Decide, market
  <2>3. CASE step' \in {"sleep", "exit"} /\ UNCHANGED <<plan, history>>
    BY <1>1, <2>2, <2>3 DEF history, LoopInv, LoopTyped, LookIsTrue, FreshIsOfNow
  <2>4. CASE /\ Answer(look.pos, look.active) \in {"narrow", "wide"}
             /\ PlanEntry(Answer(look.pos, look.active))
    BY <2>2, <2>4, PlanKeepsLoop
  <2> QED
    BY <2>1, <2>3, <2>4
<1>4. CASE Exit
  <2>1. UNCHANGED <<active, weather, plan>> /\ step' \in {"reselect", "sleep"}
    BY <1>4 DEF Exit, market, Sleep
  <2>2. CASE UNCHANGED <<pos, reg, fresh>>
    BY <1>1, <2>1, <2>2 DEF LoopInv, LoopTyped, LookIsTrue, FreshIsOfNow
  <2>3. CASE /\ pos' = NoPosition /\ fresh' = FALSE
             /\ reg' = [t \in DOMAIN reg |-> IF Overlap(reg[t], pos) THEN NoPosition ELSE reg[t]]
    <3>1. /\ DOMAIN reg' = {"narrow", "wide"}
          /\ \A t \in {"narrow", "wide"} : reg'[t] \in Place
      BY <2>3, NoPositionType DEF LoopInv, LoopTyped
    <3>2. LoopTyped'
      BY <2>1, <2>3, <3>1, NoPositionType DEF LoopInv, LoopTyped
    <3> QED
      BY <2>1, <2>3, <3>2 DEF LoopInv, LookIsTrue, FreshIsOfNow
  <2> QED
    BY <1>4, <2>2, <2>3 DEF Exit
<1>5. CASE Reselect
  <2>1. UNCHANGED <<active, weather, pos, reg>>
    BY <1>5 DEF Reselect, market, books
  <2>2. CASE Answer(pos, active) \in {"narrow", "wide"} /\ PlanEntry("wide")
    BY <2>1, <2>2, PlanKeepsLoop
  <2>3. CASE step' = "sleep" /\ UNCHANGED <<plan, history>>
    BY <1>1, <2>1, <2>3 DEF history, LoopInv, LoopTyped, LookIsTrue, FreshIsOfNow
  <2> QED
    BY <1>5, <2>2, <2>3 DEF Reselect, Sleep
<1>6. CASE Enter
  BY <1>6, EnterKeepsLoop
<1>7. CASE Market
  <2>1. active' \in ActiveBins \cup {active} /\ weather' \in Weathers \cup {weather}
    BY <1>7 DEF Market, PriceMoves, WeatherTurns
  <2> QED
    BY <1>7, <2>1, ConstantsType
       DEF Market, books, LoopInv, LoopTyped, LookIsTrue, FreshIsOfNow
<1>8. CASE Owner
  BY <1>8, ConstantsType, NoPositionType
     DEF Owner, market, books, Place, LoopInv, LoopTyped, LookIsTrue, FreshIsOfNow
<1>9. CASE UNCHANGED vars
  BY <1>1, <1>9 DEF vars, market, books, history, LoopInv, LoopTyped, LookIsTrue, FreshIsOfNow
<1>10. CASE LosesTime
  BY <1>1, <1>10 DEF LosesTime, market, history, LoopInv, LoopTyped, LookIsTrue, FreshIsOfNow
<1> QED
  BY <1>2, <1>3, <1>4, <1>5, <1>6, <1>7, <1>8, <1>9, <1>10 DEF Next, Bot

(* The bot does not undo its own entries: whatever the prices, the weather  *)
(* and the strategy, the engine holds a position as long as the market is   *)
(* the one it was entered in.  The hypothesis is the exact range of         *)
(* position_upside_pct for which it is so: from 75 percent on, and below    *)
(* 25, a narrow entry of eight bins is left by the next cycle.              *)
THEOREM FreshEntriesAreHeld ==
    ASSUME Upside \in 25..74
    PROVE  Spec => []FreshEntryIsHeld
<1>1. LoopInv => FreshEntryIsHeld
  <2> SUFFICES ASSUME LoopInv, fresh, pos # NoPosition
               PROVE  Answer(pos, active) = "hold"
    BY DEF FreshEntryIsHeld
  <2>1. PICK strategy \in {"narrow", "wide"} :
            /\ EntryBins(View[weather], strategy) > 0
            /\ pos = Spot(EntryBins(View[weather], strategy), active)
    BY DEF LoopInv, FreshIsOfNow
  <2>2. weather \in Weathers /\ active \in Int
    BY DEF LoopInv, LoopTyped
  <2>3. SelectStrategy(Spot(EntryBins(View[weather], strategy), active), active,
                       View[weather]) = "hold"
    BY <2>1, <2>2, EntryIsHeld
  <2> QED
    BY <2>1, <2>3 DEF Answer
<1> QED
  BY <1>1, LoopInit, LoopStep, PTL DEF Spec

-----------------------------------------------------------------------------
(* The search for changes from outside.  Since the last snapshot nothing    *)
(* has changed what a snapshot shows without a cause on the list.           *)
Accounted ==
    /\ causes # {} \/ \A before \in prev : before.bins = SnapshotBins
    /\ causes \subseteq {"owner", "silently", "entry"}
    /\ sinceOp \in Nat

LEMMA AccountedInit == Init => Accounted
BY ConstantsType DEF Init, Accounted

LEMMA LaterIsNat ==
    ASSUME sinceOp \in Nat
    PROVE  AnIntervalLater \in Nat
BY ConstantsType DEF AnIntervalLater, Smaller

LEMMA SnapshotStays ==
    ASSUME UNCHANGED <<pos, reg>>
    PROVE  SnapshotBins' = SnapshotBins
BY DEF SnapshotBins, Clear

LEMMA AccountedStep == Accounted /\ [Next]_vars => Accounted'
<1> SUFFICES ASSUME Accounted, [Next]_vars
             PROVE  Accounted'
  OBVIOUS
<1>1. CASE Prepare
  <2>1. UNCHANGED <<pos, reg>> /\ sinceOp' \in Nat /\ \E worth : RecordSnapshot(worth)
    BY <1>1, LaterIsNat DEF Prepare, Accounted
  <2>2. PICK worth : RecordSnapshot(worth)
    BY <2>1
  <2>3. CASE prev' = {Snapshot(worth)} /\ causes' = {}
    <3>1. Snapshot(worth).bins = SnapshotBins
      BY DEF Snapshot
    <3>2. \A before \in prev' : before.bins = SnapshotBins'
      BY <2>1, <2>3, <3>1, SnapshotStays
    <3> QED
      BY <2>1, <2>3, <3>2 DEF Accounted
  <2>4. CASE UNCHANGED <<prev, causes>>
    BY <2>1, <2>4, SnapshotStays DEF Accounted
  <2> QED
    BY <2>2, <2>3, <2>4 DEF RecordSnapshot
<1>2. CASE Decide
  <2>1. UNCHANGED <<pos, reg, prev, causes, sinceOp>>
    BY <1>2 DEF Decide, PlanEntry, history
  <2> QED
    BY <2>1, SnapshotStays DEF Accounted
<1>3. CASE Exit
  <2>1. \/ causes' = causes \cup {"silently"}
        \/ UNCHANGED <<pos, reg, prev, causes>>
    BY <1>3 DEF Exit
  <2>2. sinceOp' \in Nat
    BY <1>3 DEF Exit, RecordOperation, Accounted
  <2> QED
    BY <2>1, <2>2, SnapshotStays DEF Accounted
<1>4. CASE Reselect
  <2>1. UNCHANGED <<pos, reg, prev, causes, sinceOp>>
    BY <1>4 DEF Reselect, PlanEntry, books, history
  <2> QED
    BY <2>1, SnapshotStays DEF Accounted
<1>5. CASE Enter
  <2>1. \/ causes' = causes \cup {"silently"}
        \/ causes' = causes \cup {"entry"}
        \/ UNCHANGED <<pos, reg, prev, causes>>
    BY <1>5 DEF Enter
  <2>2. sinceOp' \in Nat
    BY <1>5 DEF Enter, RecordOperation, Accounted
  <2> QED
    BY <2>1, <2>2, SnapshotStays DEF Accounted
<1>6. CASE Market \/ LosesTime
  <2>1. UNCHANGED <<pos, reg, prev, causes>> /\ sinceOp' \in {sinceOp, AnIntervalLater}
    BY <1>6 DEF Market, LosesTime, books, history
  <2> QED
    BY <2>1, LaterIsNat, SnapshotStays DEF Accounted
<1>7. CASE Owner
  BY <1>7 DEF Owner, books, Accounted
<1>8. CASE UNCHANGED vars
  BY <1>8, SnapshotStays DEF vars, books, history, Accounted
<1> QED
  BY <1>1, <1>2, <1>3, <1>4, <1>5, <1>6, <1>7, <1>8 DEF Next, Bot

LEMMA SnapshotBinsType ==
    ASSUME LoopInv
    PROVE  SnapshotBins \in Int
<1>1. /\ pos \in Place /\ DOMAIN reg = {"narrow", "wide"}
      /\ \A t \in {"narrow", "wide"} : reg[t] \in Place
  BY DEF LoopInv, LoopTyped
<1>2. \A p \in Place : Size(p) \in Int
  BY DEF Size, Place
<1> DEFINE bins(t) == IF pos # NoPosition /\ Clear(t) THEN Size(pos) ELSE Size(reg[t])
<1>3. bins("narrow") \in Int /\ bins("wide") \in Int
  BY <1>1, <1>2
<1>4. SnapshotBins = Larger(bins("narrow"), bins("wide"))
  BY DEF SnapshotBins
<1> HIDE DEF bins
<1> QED
  BY <1>3, <1>4 DEF Larger

(* Nothing is suspected of a snapshot with as many bins as the last one.    *)
LEMMA SameIsNoFlow ==
    ASSUME NEW before, NEW now, before.bins = now.bins, now.bins \in Int
    PROVE  Suspected(before, now) = {"none"}
BY DEF Suspected, Magnitude

(* Whatever fails in between, and however long a cycle takes: a suspicion   *)
(* means that the owner has acted, that the bot has without a record, or    *)
(* that an entry on record was followed by no snapshot within the window    *)
(* of detect_external_changes.                                              *)
THEOREM RecordedEntriesStayTheBots == Spec => RecordedEntriesAreNotFlows
<1>1. LoopInv /\ Accounted /\ [Next]_vars =>
        [Searched /\ flow' # "none" =>
           \/ causes \cap {"owner", "silently"} # {}
           \/ "entry" \in causes /\ sinceOp' >= Window]_vars
  <2> SUFFICES ASSUME LoopInv, Accounted, Next, Searched, flow' # "none"
               PROVE  \/ causes \cap {"owner", "silently"} # {}
                      \/ "entry" \in causes /\ sinceOp' >= Window
    OBVIOUS
  <2>1. Prepare
    BY DEF Searched, Next, Bot, Decide, Exit, Reselect, Enter, Market, Owner, LosesTime
  <2>2. PICK worth : flow' \in Flows(sinceOp', Snapshot(worth))
    BY <2>1 DEF Prepare, RecordSnapshot
  <2>3. sinceOp' = AnIntervalLater
    BY <2>1 DEF Prepare
  <2>4. sinceOp' >= Window
    <3>1. ~(sinceOp' < Window)
      BY <2>2 DEF Flows
    <3> QED
      BY <2>3, <3>1, LaterIsNat, ConstantsType DEF Accounted
  <2>5. ASSUME causes = {} PROVE FALSE
    <3>1. \A before \in prev : before.bins = Snapshot(worth).bins
      BY <2>5 DEF Accounted, Snapshot
    <3>2. Snapshot(worth).bins \in Int
      BY SnapshotBinsType DEF Snapshot
    <3>3. \A before \in prev : Suspected(before, Snapshot(worth)) = {"none"}
      BY <3>1, <3>2, SameIsNoFlow
    <3>4. Flows(sinceOp', Snapshot(worth)) \subseteq {"none"}
      BY <3>3 DEF Flows
    <3> QED
      BY <2>2, <3>4
  <2> QED
    BY <2>4, <2>5 DEF Accounted
<1> QED
  BY <1>1, LoopInit, LoopStep, AccountedInit, AccountedStep, PTL
     DEF Spec, RecordedEntriesAreNotFlows

-----------------------------------------------------------------------------
(* A position farther from the price than both tolerances and the patience  *)
(* with an oversold market is left, in any weather and with any override:   *)
(* the tolerance, which grows with the channel, is capped.                  *)
THEOREM TooFarIsLeft ==
    ASSUME NEW w \in Weathers, NEW p \in Place, NEW at \in Int, p # NoPosition,
           Drift(p, at) > OorCap, Drift(p, at) > OorTolerance,
           Drift(p, at) > OversoldHold
    PROVE  SelectStrategy(p, at, View[w]) = "exit_and_reenter"
<1>1. OorCap \in Nat /\ OorTolerance \in Nat
  BY EngineAssumption
<1> DEFINE width == View[w].width
           drift == Drift(p, at)
<1>2. width \in Nat
  BY ViewIs, ChannelTyped
<1>3. drift \in Int /\ drift > 0 /\ p.lo \in Int /\ p.hi \in Int
  BY <1>1 DEF Drift, Place
<1>4. ~InRange(p, at)
  BY <1>3 DEF Drift, InRange
<1>5. ~(drift <= Tolerance(View[w]))
  <2>1. Tolerance(View[w]) = Larger(OorTolerance, Smaller(OorCap, (6 * width) \div 10))
    BY DEF Tolerance
  <2> HIDE DEF width, drift
  <2>2. Smaller(OorCap, (6 * width) \div 10) \in Int /\ Smaller(OorCap, (6 * width) \div 10) <= OorCap
    BY <1>1, <1>2 DEF Smaller
  <2>3. drift > OorCap /\ drift > OorTolerance
    BY DEF drift
  <2> QED
    BY <1>1, <1>3, <2>1, <2>2, <2>3 DEF Larger
<1>6. ~(drift <= OversoldHold)
  <2>1. OversoldHold \in Int
    BY DEF OversoldHold
  <2> QED
    BY <1>3, <2>1
<1> HIDE DEF drift
<1>7. ~Stay(p, at, View[w])
  BY <1>4, <1>5, <1>6 DEF Stay, drift
<1> QED
  BY <1>4, <1>7 DEF SelectStrategy
=============================================================================
