----------------------- MODULE PositionLifecycleProofs -----------------------
(***************************************************************************)
(* What holds of the life of a position for any pool, any windows of the   *)
(* search, any chunk of a removal and any number of adds: the market, late *)
(* adds, failures and stops may come between any two steps.                *)
(***************************************************************************)
EXTENDS PositionLifecycle, WellFoundedInduction, TLAPS

-----------------------------------------------------------------------------
(* A set of numbers has a least one, and a bounded one a greatest: this is  *)
(* also what replaces induction below, as the least counterexample.         *)
LEMMA LeastExists ==
    ASSUME NEW S \in SUBSET Nat, S # {}
    PROVE  \E x \in S : \A y \in S : x <= y
<1>1. PICK x \in S : \A y \in S : ~(<<y, x>> \in OpToRel(<, Nat))
  BY WFMin, NatLessThanWellFounded
<1>2. ASSUME NEW y \in S PROVE ~(y < x)
  <2> SUFFICES ASSUME y < x PROVE FALSE
    OBVIOUS
  <2>1. <<y, x>> \in OpToRel(<, Nat)
    BY DEF OpToRel
  <2> QED
    BY <1>1, <2>1
<1>3. \A y \in S : x <= y
  <2> SUFFICES ASSUME NEW y \in S PROVE x <= y
    OBVIOUS
  <2>1. x \in Nat /\ y \in Nat
    BY <1>1
  <2>2. ~(y < x)
    BY <1>2
  <2> QED
    BY <2>1, <2>2
<1> QED
  BY <1>1, <1>3

LEMMA MinIsLeast ==
    ASSUME NEW S \in SUBSET Nat, S # {}
    PROVE  Min(S) \in S /\ \A y \in S : Min(S) <= y
<1>1. \E x \in S : \A y \in S : x <= y
  BY LeastExists
<1> QED
  BY <1>1 DEF Min

LEMMA MaxIsGreatest ==
    ASSUME NEW top \in Nat, NEW S \in SUBSET (0..top), S # {}
    PROVE  Max(S) \in S /\ \A y \in S : y <= Max(S)
<1> DEFINE above == {n \in Nat : \A y \in S : y <= n}
<1>1. top \in above
  OBVIOUS
<1>2. PICK n \in above : \A m \in above : n <= m
  <2>1. above \in SUBSET Nat /\ above # {}
    BY <1>1
  <2> HIDE DEF above
  <2> QED
    BY <2>1, LeastExists
<1>3. n \in S
  <2> SUFFICES ASSUME n \notin S PROVE FALSE
    OBVIOUS
  <2>1. \A y \in S : y \in Nat /\ y <= n /\ y # n
    BY <1>2
  <2>2. PICK y \in S : TRUE
    OBVIOUS
  <2>3. n - 1 \in Nat
    BY <1>2, <2>1, <2>2
  <2>4. \A z \in S : z <= n - 1
    BY <1>2, <2>1
  <2>5. n - 1 \in above
    BY <2>3, <2>4
  <2> QED
    BY <1>2, <2>5
<1>4. \A y \in S : n >= y
  BY <1>2
<1>5. \E x \in S : \A y \in S : x >= y
  BY <1>3, <1>4
<1>6. Max(S) \in S /\ \A y \in S : Max(S) >= y
  BY <1>5 DEF Max
<1> QED
  BY <1>6

-----------------------------------------------------------------------------
(* The range of an entry covers the bins it is made from. *)
LEMMA HullCovers ==
    ASSUME NEW bins \in SUBSET Bins
    PROVE  Hull(bins) \subseteq Bins /\ bins \subseteq Hull(bins)
<1>1. CASE bins = {}
  BY <1>1 DEF Hull
<1>2. CASE bins # {}
  <2>1. TopBin \in Nat /\ bins \in SUBSET Nat /\ bins \in SUBSET (0..TopBin)
    BY LifecycleAssumption DEF Bins
  <2>2. Min(bins) \in bins /\ \A y \in bins : Min(bins) <= y
    BY <1>2, <2>1, MinIsLeast
  <2>3. Max(bins) \in bins /\ \A y \in bins : y <= Max(bins)
    BY <1>2, <2>1, MaxIsGreatest
  <2>4. Hull(bins) = Min(bins)..Max(bins)
    BY <1>2 DEF Hull
  <2> DEFINE left == Min(bins)
             right == Max(bins)
  <2> HIDE DEF left, right
  <2>5. left \in 0..TopBin /\ right \in 0..TopBin
    BY <2>1, <2>2, <2>3 DEF left, right
  <2>6. left..right \subseteq 0..TopBin
    BY <2>1, <2>5
  <2>7. \A y \in bins : y \in Nat /\ left <= y /\ y <= right
    BY <2>1, <2>2, <2>3 DEF left, right
  <2> QED
    BY <2>4, <2>6, <2>7 DEF Bins, left, right
<1> QED
  BY <1>1, <1>2

LEMMA FoundIsHeld ==
    ASSUME NEW held, NEW c
    PROVE  Discovered(held, c) \subseteq held
BY DEF Discovered

-----------------------------------------------------------------------------
(* An add that is on its way is a proper one, and there is a plan only while *)
(* a removal is under way.                                                   *)
Typed ==
    /\ TypeOK
    /\ pc \in {"sent", "mined"} => add \in Adds /\ add.lo <= add.hi
    /\ pc # "removing" => plan = {} /\ todo = {} /\ grown = {} /\ taken = {}

(* What a removal has burnt holds nothing, unless it got tokens since. *)
BurntIsGone == (plan \ (todo \cup grown)) \cap real = {}

(* An entry has liquidity, or is about to be deregistered, or has been left *)
(* behind by a failure; and so has one that is about to be registered.      *)
EntriesStand ==
    /\ \A t \in Open : t \in excused \/ reg[t] \cap (real \cup plan) # {}
    /\ pc = "mined" => add.type \in excused \/ (add.lo..add.hi) \cap real # {}

LEMMA RangesOfAdds ==
    ASSUME NEW a \in Adds
    PROVE  a.type \in Types /\ a.lo..a.hi \subseteq Bins
<1>1. a.lo \in Bins /\ a.hi \in Bins /\ a.type \in Types
  BY DEF Adds
<1> QED
  BY <1>1, LifecycleAssumption DEF Bins

(* A delivery only adds: to what the wallet has, and around its target. *)
LEMMA Delivers ==
    ASSUME NEW a, NEW good \in SUBSET Target(a), NEW poor \in SUBSET Target(a),
           Deliver(a, good, poor), real \subseteq Bins, dust \subseteq Bins,
           active \in Bins, a \in Adds
    PROVE  /\ real' \subseteq Bins /\ dust' \subseteq Bins /\ real' \cap dust' = {}
           /\ real' = real \cup good
           /\ Target(a) \subseteq Bins
<1>1. /\ real' = real \cup good
      /\ dust' = (dust \cup poor) \ real'
  BY DEF Deliver
<1>2. Target(a) \subseteq Bins
  <2> DEFINE l == a.lo + Shift(a)
             r == a.hi + Shift(a)
  <2>1. l \in 0..TopBin /\ r \in 0..TopBin /\ TopBin \in Nat
    BY LifecycleAssumption DEF Deliver, CanMine, Bins
  <2> HIDE DEF l, r
  <2>2. l..r \subseteq 0..TopBin
    BY <2>1
  <2> QED
    BY <2>2 DEF Target, Bins, l, r
<1> QED
  BY <1>1, <1>2

LEMMA LateDelivers ==
    ASSUME NEW a \in limbo, LateAdd(a), real \subseteq Bins, dust \subseteq Bins,
           active \in Bins, limbo \subseteq Adds
    PROVE  /\ real' \subseteq Bins /\ dust' \subseteq Bins /\ real' \cap dust' = {}
           /\ real \subseteq real'
           /\ grown \subseteq grown' /\ grown' \subseteq grown \cup plan
           /\ plan \cap (real' \ real) \subseteq grown'
<1>1. PICK good \in SUBSET Target(a), poor \in SUBSET Target(a) :
         /\ Deliver(a, good, poor)
         /\ grown' = grown \cup (plan \cap (good \cup poor))
  BY DEF LateAdd
<1>2. a \in Adds
  OBVIOUS
<1>3. /\ real' \subseteq Bins /\ dust' \subseteq Bins /\ real' \cap dust' = {}
      /\ real' = real \cup good
  BY <1>1, <1>2, Delivers
<1> QED
  BY <1>1, <1>3

(* Burning only takes away, from the bins that are burnt. *)
LEMMA Burns ==
    ASSUME NEW bins, NEW more \in SUBSET bins, Burn(bins, more),
           real \subseteq Bins, dust \subseteq Bins, real \cap dust = {}
    PROVE  /\ real' \subseteq real /\ real \ real' \subseteq bins
           /\ bins \cap real' \subseteq more
           /\ real' \subseteq Bins /\ dust' \subseteq Bins /\ real' \cap dust' = {}
BY DEF Burn

LEMMA ChunkBurns ==
    ASSUME RemoveChunk, Typed
    PROVE  /\ real' \subseteq real /\ real \ real' \subseteq FirstChunk
           /\ FirstChunk \cap real' \subseteq grown /\ FirstChunk \subseteq todo
           /\ real' \subseteq Bins /\ dust' \subseteq Bins /\ real' \cap dust' = {}
<1>1. /\ FirstChunk \subseteq todo /\ FirstChunk \cap grown \in SUBSET FirstChunk
      /\ real \subseteq Bins /\ dust \subseteq Bins /\ real \cap dust = {}
      /\ Burn(FirstChunk, FirstChunk \cap grown)
  BY DEF FirstChunk, RemoveChunk, Typed, TypeOK
<1> HIDE DEF FirstChunk
<1>2. /\ real' \subseteq real /\ real \ real' \subseteq FirstChunk
      /\ FirstChunk \cap real' \subseteq FirstChunk \cap grown
      /\ real' \subseteq Bins /\ dust' \subseteq Bins /\ real' \cap dust' = {}
  BY <1>1, Burns
<1> QED
  BY <1>1, <1>2

LEMMA LateBurns ==
    ASSUME NEW bins \in late, LateBurn(bins), Typed
    PROVE  /\ real' \subseteq real /\ real \ real' \subseteq bins
           /\ real' \subseteq Bins /\ dust' \subseteq Bins /\ real' \cap dust' = {}
<1>1. /\ real \subseteq Bins /\ dust \subseteq Bins /\ real \cap dust = {}
      /\ Burn(bins, bins)
  BY DEF LateBurn, Typed, TypeOK
<1> QED
  BY <1>1, Burns

(* A chunk of what is left to burn is a set of bins, sent or not.           *)
LEMMA GivesUp ==
    ASSUME GiveUp, Typed
    PROVE  /\ late' \subseteq SUBSET Bins
           /\ excused' \subseteq Types /\ excused \subseteq excused' /\ Open \subseteq excused'
           /\ NoRemoval
<1>1. FirstChunk \subseteq Bins /\ Open \subseteq Types
  BY DEF FirstChunk, Open, Typed, TypeOK
<1> QED
  BY <1>1 DEF GiveUp, Typed, TypeOK

LEMMA InitiallyTyped == Init => Typed
<1> SUFFICES ASSUME Init PROVE Typed
  OBVIOUS
<1>1. Open = {}
  BY DEF Open, Init
<1>2. 0 \in 0..MaxAdds
  BY LifecycleAssumption
<1> QED
  BY <1>1, <1>2 DEF Init, Typed, TypeOK

LEMMA StepTyped == Typed /\ [Next]_vars => Typed'
<1> SUFFICES ASSUME Typed, [Next]_vars PROVE Typed'
  OBVIOUS
<1> USE DEF Typed, TypeOK
<1>1. CASE Move
  BY <1>1 DEF Move, chain, bot, removal, Open
<1>2. CASE Age
  BY <1>2 DEF Age, chain, removal, Open
<1>3. ASSUME NEW t \in Types, NEW left \in 0..Half, NEW right \in 0..Half,
             SendAdd(t, left, right)
      PROVE  Typed'
  <2>1. adds + 1 \in 0..MaxAdds
    BY <1>3, LifecycleAssumption DEF SendAdd
  <2>2. /\ active \in Bins /\ active - left \in Bins /\ active + right \in Bins
        /\ active - left <= active + right
    BY <1>3, LifecycleAssumption DEF SendAdd, Bins
  <2>3. add' \in Adds /\ add'.lo <= add'.hi
    BY <1>3, <2>2 DEF SendAdd, Adds
  <2> QED
    BY <1>3, <2>1, <2>3 DEF SendAdd, chain, removal, Open
<1>4. CASE AddMined
  <2>0. PICK good \in SUBSET Target(add), poor \in SUBSET Target(add) :
          /\ Deliver(add, good, poor)
          /\ excused' = IF Shift(add) = 0 /\ good # {} THEN excused
                        ELSE excused \cup {add.type}
    BY <1>4 DEF AddMined
  <2>1. real' \subseteq Bins /\ dust' \subseteq Bins /\ real' \cap dust' = {}
    BY <1>4, <2>0, Delivers DEF AddMined
  <2>2. add.type \in Types
    BY <1>4, RangesOfAdds DEF AddMined
  <2>3. excused' \subseteq Types
    BY <2>0, <2>2
  <2>4. UNCHANGED <<active, reg, recent, add, limbo, late, removal, adds>> /\ pc' = "mined" /\ pc = "sent"
    BY <1>4 DEF AddMined
  <2> QED
    BY <2>1, <2>2, <2>3, <2>4 DEF Open, removal
<1>5. CASE AddFailed
  BY <1>5 DEF AddFailed, chain, removal, Open
<1>6. CASE AddLost
  BY <1>6 DEF AddLost, removal, Open
<1>7. ASSUME NEW a \in limbo, LateAdd(a) PROVE Typed'
  <2>1. /\ real' \subseteq Bins /\ dust' \subseteq Bins /\ real' \cap dust' = {}
        /\ grown' \subseteq grown \cup plan
    BY <1>7, LateDelivers
  <2>2. /\ UNCHANGED <<active, late, reg, recent, pc, add, plan, todo, taken, adds, excused>>
        /\ limbo' \subseteq limbo
    BY <1>7 DEF LateAdd
  <2>3. pc # "removing" => grown' = {}
    BY <2>1
  <2> QED
    BY <2>1, <2>2, <2>3 DEF Open
<1>8. ASSUME NEW a \in limbo, LateAddExpires(a) PROVE Typed'
  BY <1>8 DEF LateAddExpires, bot, removal, Open
<1>19. ASSUME NEW bins \in late, LateBurn(bins) PROVE Typed'
  <2>1. real' \subseteq Bins /\ dust' \subseteq Bins /\ real' \cap dust' = {}
    BY <1>19, LateBurns
  <2>2. Touched(bins) \subseteq Types
    BY DEF Touched, Affected
  <2>3. /\ UNCHANGED <<active, limbo, reg, recent, pc, add, plan, todo, grown, adds>>
        /\ late' \subseteq late /\ excused' \subseteq Types
        /\ taken' = taken \cup (plan \cap bins)
    BY <1>19, <2>2 DEF LateBurn
  <2>4. taken' \subseteq plan' /\ (pc # "removing" => taken' = {})
    BY <2>3
  <2> QED
    BY <2>1, <2>3, <2>4 DEF Open
<1>20. ASSUME NEW bins \in late, LateBurnExpires(bins) PROVE Typed'
  BY <1>20 DEF LateBurnExpires, bot, removal, Open
<1>9. CASE Register
  <2>1. add.type \in Types /\ add.lo..add.hi \subseteq Bins
    BY <1>9, RangesOfAdds DEF Register
  <2> DEFINE bins == reg[add.type] \cup add.lo..add.hi
             hull == Hull(bins)
  <2>2. bins \in SUBSET Bins /\ bins # {}
    <3>1. add.lo \in add.lo..add.hi
      BY <1>9, LifecycleAssumption DEF Register, Adds, Bins
    <3> QED
      BY <2>1, <3>1
  <2> HIDE DEF bins
  <2>3. hull \subseteq Bins /\ hull # {}
    BY <2>2, HullCovers
  <2>4. UNCHANGED <<active, chain, removal, adds, excused>> /\ pc' = "idle" /\ add' = NoAdd
    BY <1>9 DEF Register
  <2>5. CASE UNCHANGED <<reg, recent>>
    BY <1>9, <2>4, <2>5 DEF chain, removal, Open, Register
  <2>6. CASE /\ reg' = [reg EXCEPT ![add.type] = hull]
             /\ recent' = IF reg[add.type] = {} THEN recent \cup {add.type} ELSE recent
    <3> HIDE DEF hull
    <3>1. reg' \in [Types -> SUBSET Bins] /\ Open \cup {add.type} \subseteq Open'
      BY <2>1, <2>3, <2>6 DEF Open
    <3> QED
      BY <1>9, <2>4, <2>6, <3>1 DEF chain, removal, Register
  <2> QED
    BY <1>9, <2>5, <2>6 DEF Register, bins
<1>10. CASE StartRemove
  <2>1. Visible \subseteq Bins /\ Scraps \subseteq Bins
    BY DEF Visible, Scraps
  <2>2. PICK shown \in SUBSET Scraps : plan' = Visible \cup shown
    BY <1>10 DEF StartRemove
  <2>3. plan' \subseteq Bins /\ todo' \subseteq plan' /\ grown' = {} /\ taken' = {}
    BY <1>10, <2>1, <2>2 DEF StartRemove
  <2> QED
    BY <1>10, <2>3 DEF StartRemove, chain, Open
<1>11. CASE RemoveChunk
  <2>1. real' \subseteq Bins /\ dust' \subseteq Bins /\ real' \cap dust' = {}
    BY <1>11, ChunkBurns
  <2>2. todo' \subseteq plan /\ pc' = pc /\ pc = "removing"
    BY <1>11 DEF RemoveChunk
  <2> QED
    BY <1>11, <2>1, <2>2 DEF RemoveChunk, Open
<1>12. CASE RemoveFails
  <2>1. late' \subseteq SUBSET Bins /\ excused' \subseteq Types /\ NoRemoval
    BY <1>12, GivesUp DEF RemoveFails
  <2> QED
    BY <1>12, <2>1 DEF RemoveFails, NoRemoval, Open
<1>13. CASE Deregister
  <2>1. PICK kept \in SUBSET Affected(plan) :
          /\ reg' = [t \in Types |-> IF t \in Affected(plan) \ kept THEN {} ELSE reg[t]]
          /\ recent' = recent \ (Affected(plan) \ kept)
          /\ excused' = excused \cup kept
    BY <1>13 DEF Deregister
  <2>2. Affected(plan) \subseteq Types
    BY DEF Affected
  <2>3. reg' \in [Types -> SUBSET Bins] /\ recent' \subseteq Open' /\ excused' \subseteq Types
    BY <2>1, <2>2 DEF Open
  <2> QED
    BY <1>13, <2>3 DEF Deregister, NoRemoval, chain
<1>14. CASE Stop
  <2>1. Open \subseteq Types
    BY DEF Open
  <2>2. /\ late' \subseteq SUBSET Bins /\ excused' \subseteq Types
        /\ plan' = {} /\ todo' = {} /\ grown' = {} /\ taken' = {}
    <3>1. CASE pc = "removing" /\ todo # {} /\ GiveUp
      BY <3>1, GivesUp DEF NoRemoval
    <3>2. CASE NoRemoval /\ excused' = excused \cup Open /\ UNCHANGED late
      BY <2>1, <3>2 DEF NoRemoval
    <3>3. CASE pc # "removing" /\ UNCHANGED <<late, removal, excused>>
      BY <3>3 DEF removal
    <3> QED
      BY <1>14, <3>1, <3>2, <3>3 DEF Stop
  <2>3. /\ pc' = "down" /\ UNCHANGED <<active, real, dust, reg, recent, adds>>
        /\ limbo' \subseteq Adds /\ add' = NoAdd
    BY <1>14 DEF Stop
  <2> QED
    BY <2>2, <2>3 DEF Open
<1>15. CASE Boot
  BY <1>15 DEF Boot, chain, removal, Open
<1>16. CASE Reconcile
  <2>1. /\ reg' = [t \in Types |-> IF reg[t] \subseteq Missing THEN {} ELSE reg[t]]
        /\ recent' = recent \cap {t \in Types : reg'[t] # {}}
    BY <1>16 DEF Reconcile
  <2>2. reg' \in [Types -> SUBSET Bins] /\ recent' \subseteq Open'
    BY <2>1 DEF Open
  <2> QED
    BY <1>16, <2>2 DEF Reconcile, chain, removal
<1>17. CASE StartAnyway
  BY <1>17 DEF StartAnyway, chain, removal, Open
<1>18. CASE UNCHANGED vars
  BY <1>18 DEF vars, Open
<1> QED
  BY <1>1, <1>2, <1>3, <1>4, <1>5, <1>6, <1>7, <1>8, <1>9, <1>10, <1>11, <1>12, <1>13,
     <1>14, <1>15, <1>16, <1>17, <1>18, <1>19, <1>20 DEF Next

(* A position is planned bin by bin only while remove_position is at work,  *)
(* and what is registered is a range that was asked for.                    *)
THEOREM LifecycleTyped == Spec => []Typed
BY InitiallyTyped, StepTyped, PTL DEF Spec

(* Every variable has its type; in particular every entry is a range of     *)
(* bins of the pool, and a removal never works on bins it has not planned.  *)
THEOREM LifecycleTypeCorrect == Spec => []TypeOK
<1>1. Typed => TypeOK
  BY DEF Typed
<1> QED
  BY <1>1, LifecycleTyped, PTL

-----------------------------------------------------------------------------
(* The bins a removal has still to burn hold liquidity, however long ago it *)
(* found them, unless a removal given up before has taken them meanwhile:   *)
(* nothing else takes any away.                                             *)
THEOREM LifecyclePlanMatchesChain == Spec => []PlanMatchesChain
<1>1. Init => PlanMatchesChain
  BY DEF Init, PlanMatchesChain
<1>2. Typed /\ PlanMatchesChain /\ [Next]_vars => PlanMatchesChain'
  <2> SUFFICES ASSUME Typed, PlanMatchesChain, [Next]_vars PROVE todo' \subseteq real' \cup taken'
    BY DEF PlanMatchesChain
  <2>0. /\ todo \subseteq real \cup taken /\ todo \subseteq plan
        /\ real \subseteq Bins /\ dust \subseteq Bins /\ active \in Bins /\ limbo \subseteq Adds
        /\ pc \in {"sent", "mined"} => add \in Adds
    BY DEF PlanMatchesChain, Typed, TypeOK
  <2>1. CASE Move \/ Age \/ AddFailed \/ AddLost \/ Register \/ Boot \/ Reconcile \/ StartAnyway
    BY <2>0, <2>1 DEF Move, Age, AddFailed, AddLost, Register, Boot, Reconcile, StartAnyway,
                chain, bot, removal
  <2>2. ASSUME NEW t \in Types, NEW left \in 0..Half, NEW right \in 0..Half,
               SendAdd(t, left, right)
        PROVE  todo' \subseteq real' \cup taken'
    BY <2>0, <2>2 DEF SendAdd, chain, removal
  <2>3. CASE AddMined
    <3>1. real \subseteq real'
      BY <2>0, <2>3, Delivers DEF AddMined
    <3> QED
      BY <2>0, <2>3, <3>1 DEF AddMined, removal
  <2>4. ASSUME NEW a \in limbo, LateAdd(a) PROVE todo' \subseteq real' \cup taken'
    <3>1. real \subseteq real'
      BY <2>0, <2>4, LateDelivers
    <3> QED
      BY <2>0, <2>4, <3>1 DEF LateAdd
  <2>5. ASSUME NEW a \in limbo, LateAddExpires(a) PROVE todo' \subseteq real' \cup taken'
    BY <2>0, <2>5 DEF LateAddExpires, bot, removal
  <2>6. CASE StartRemove
    BY <2>6 DEF StartRemove, Visible, chain
  <2>7. CASE RemoveChunk
    <3>1. real \ real' \subseteq FirstChunk
      BY <2>7, ChunkBurns
    <3> QED
      BY <2>0, <2>7, <3>1 DEF RemoveChunk
  <2>8. CASE RemoveFails \/ Deregister
    BY <2>8 DEF RemoveFails, GiveUp, Deregister, NoRemoval
  <2>9. CASE Stop
    BY <2>0, <2>9 DEF Stop, GiveUp, NoRemoval, removal
  <2>10. ASSUME NEW bins \in late, LateBurn(bins) PROVE todo' \subseteq real' \cup taken'
    <3>1. real \ real' \subseteq bins
      BY <2>10, LateBurns
    <3> QED
      BY <2>0, <2>10, <3>1 DEF LateBurn
  <2>11. ASSUME NEW bins \in late, LateBurnExpires(bins) PROVE todo' \subseteq real' \cup taken'
    BY <2>0, <2>11 DEF LateBurnExpires, bot, removal
  <2>12. CASE UNCHANGED vars
    BY <2>0, <2>12 DEF vars
  <2> QED
    BY <2>1, <2>2, <2>3, <2>4, <2>5, <2>6, <2>7, <2>8, <2>9, <2>10, <2>11, <2>12 DEF Next
<1> QED
  BY <1>1, <1>2, LifecycleTyped, PTL DEF Spec

-----------------------------------------------------------------------------
(* A bin a removal has burnt stays empty until an add reaches it: no chunk  *)
(* of remove_position is repeated or skipped.                               *)
THEOREM BurntStaysGone == Spec => []BurntIsGone
<1>1. Init => BurntIsGone
  BY DEF Init, BurntIsGone
<1>2. Typed /\ BurntIsGone /\ [Next]_vars => BurntIsGone'
  <2> SUFFICES ASSUME Typed, BurntIsGone, [Next]_vars
               PROVE  (plan' \ (todo' \cup grown')) \cap real' = {}
    BY DEF BurntIsGone
  <2>0. /\ (plan \ (todo \cup grown)) \cap real = {} /\ todo \subseteq plan
        /\ real \subseteq Bins /\ dust \subseteq Bins /\ active \in Bins /\ limbo \subseteq Adds
        /\ real \cap dust = {}
        /\ pc # "removing" => plan = {}
    BY DEF BurntIsGone, Typed, TypeOK
  <2> USE DEF BurntIsGone
  <2>1. CASE Move \/ Age \/ AddFailed \/ AddLost \/ Register \/ Boot \/ Reconcile \/ StartAnyway
    BY <2>0, <2>1 DEF Move, Age, AddFailed, AddLost, Register, Boot, Reconcile, StartAnyway,
                chain, bot, removal
  <2>2. ASSUME NEW t \in Types, NEW left \in 0..Half, NEW right \in 0..Half,
               SendAdd(t, left, right)
        PROVE  BurntIsGone'
    BY <2>0, <2>2 DEF SendAdd, chain, removal
  <2>3. CASE AddMined
    <3>1. pc = "sent" /\ UNCHANGED removal
      BY <2>3 DEF AddMined
    <3>2. plan' = {}
      BY <2>0, <3>1 DEF removal
    <3> QED
      BY <3>2
  <2>4. ASSUME NEW a \in limbo, LateAdd(a) PROVE BurntIsGone'
    <3>1. plan \cap (real' \ real) \subseteq grown' /\ grown \subseteq grown'
      BY <2>0, <2>4, LateDelivers
    <3> QED
      BY <2>0, <2>4, <3>1 DEF LateAdd
  <2>5. ASSUME NEW a \in limbo, LateAddExpires(a) PROVE BurntIsGone'
    BY <2>0, <2>5 DEF LateAddExpires, bot, removal
  <2>6. CASE StartRemove
    <3>1. PICK shown \in SUBSET Scraps : plan' = Visible \cup shown
      BY <2>6 DEF StartRemove
    <3>2. shown \cap real = {}
      BY <2>0 DEF Scraps
    <3> QED
      BY <2>6, <3>1, <3>2 DEF StartRemove, chain
  <2>7. CASE RemoveChunk
    <3>1. real' \subseteq real /\ FirstChunk \cap real' \subseteq grown
      BY <2>7, ChunkBurns
    <3> QED
      BY <2>0, <2>7, <3>1 DEF RemoveChunk
  <2>8. CASE RemoveFails \/ Deregister
    BY <2>8 DEF RemoveFails, GiveUp, Deregister, NoRemoval
  <2>9. CASE Stop
    BY <2>0, <2>9 DEF Stop, GiveUp, NoRemoval, removal
  <2>10. ASSUME NEW bins \in late, LateBurn(bins) PROVE BurntIsGone'
    <3>1. real' \subseteq real
      BY <2>10, LateBurns
    <3> QED
      BY <2>0, <2>10, <3>1 DEF LateBurn
  <2>11. ASSUME NEW bins \in late, LateBurnExpires(bins) PROVE BurntIsGone'
    BY <2>0, <2>11 DEF LateBurnExpires, bot, removal
  <2>12. CASE UNCHANGED vars
    BY <2>0, <2>12 DEF vars
  <2> QED
    BY <2>1, <2>2, <2>3, <2>4, <2>5, <2>6, <2>7, <2>8, <2>9, <2>10, <2>11, <2>12 DEF Next
<1> QED
  BY <1>1, <1>2, LifecycleTyped, PTL DEF Spec

(* A bin that holds liquidity loses its entry only to a removal that did    *)
(* not see it, or saw it before it got more, or to a start that cannot read *)
(* the file or is too far away: what the bot sees it never forgets.         *)
THEOREM LifecycleForgetsOnlyTheUnseen == Spec => ForgetsOnlyTheUnseen
<1> DEFINE Step == \A b \in Registered \cap real \cap real' :
                       b \notin Registered' =>
                          \/ pc = "removing" /\ (b \notin plan \/ b \in grown)
                          \/ pc = "boot" /\ b \notin Probed(Held, active)
                          \/ pc = "down"
<1>1. ASSUME Typed, BurntIsGone, [Next]_vars PROVE Step
  <2> SUFFICES ASSUME NEW b \in Registered, b \in real, b \in real', b \notin Registered'
               PROVE  \/ pc = "removing" /\ (b \notin plan \/ b \in grown)
                      \/ pc = "boot" /\ b \notin Probed(Held, active)
                      \/ pc = "down"
    OBVIOUS
  <2>1. PICK t \in Types : b \in reg[t]
    BY DEF Registered
  <2>2. b \notin reg'[t]
    BY <2>1 DEF Registered
  <2>3. reg' # reg
    BY <2>1, <2>2
  <2>4. Register \/ Deregister \/ Boot \/ Reconcile
    BY <1>1, <2>3 DEF Next, vars, Move, Age, SendAdd, AddMined, AddFailed, AddLost, LateAdd,
                      LateAddExpires, LateBurn, LateBurnExpires, StartRemove, RemoveChunk,
                      RemoveFails, Stop, StartAnyway, bot
  <2>5. CASE Register
    <3> DEFINE bins == reg[add.type] \cup add.lo..add.hi
               hull == Hull(bins)
    <3>1. reg' = [reg EXCEPT ![add.type] = hull]
      BY <2>3, <2>5 DEF Register
    <3>2. bins \in SUBSET Bins /\ reg \in [Types -> SUBSET Bins]
      BY <1>1, <2>5, RangesOfAdds DEF Register, Typed, TypeOK
    <3>3. bins \subseteq hull
      BY <3>2, HullCovers
    <3>4. reg[add.type] \subseteq hull
      BY <3>3
    <3> HIDE DEF hull
    <3>5. reg[t] \subseteq reg'[t]
      BY <3>1, <3>2, <3>4
    <3> QED
      BY <2>1, <2>2, <3>5
  <2>6. CASE Deregister
    <3>1. t \in Affected(plan) /\ pc = "removing" /\ todo = {}
      BY <2>1, <2>2, <2>6 DEF Deregister
    <3>2. b \notin plan \/ b \in grown
      BY <1>1, <3>1 DEF BurntIsGone
    <3> QED
      BY <3>1, <3>2
  <2>7. CASE Boot
    BY <2>7 DEF Boot
  <2>8. CASE Reconcile
    <3>1. reg[t] \subseteq Missing /\ pc = "boot"
      BY <2>1, <2>2, <2>8 DEF Reconcile
    <3> QED
      BY <2>1, <3>1 DEF Missing
  <2> QED
    BY <2>4, <2>5, <2>6, <2>7, <2>8
<1>2. Typed /\ BurntIsGone /\ [Next]_vars => [Step]_vars
  BY <1>1
<1> QED
  BY <1>2, LifecycleTyped, BurntStaysGone, PTL DEF Spec, ForgetsOnlyTheUnseen

-----------------------------------------------------------------------------
(* In the middle of every operation, too, an entry stands for liquidity that *)
(* is there or is being burnt, unless a failure left it behind.             *)
THEOREM EntriesAlwaysStand == Spec => []EntriesStand
<1>1. Init => EntriesStand
  BY DEF Init, EntriesStand, Open
<1>2. Typed /\ EntriesStand /\ [Next]_vars => EntriesStand'
  <2> SUFFICES ASSUME Typed, EntriesStand, [Next]_vars PROVE EntriesStand'
    OBVIOUS
  <2>t. /\ reg \in [Types -> SUBSET Bins] /\ limbo \subseteq Adds
        /\ pc \in {"sent", "mined"} => add \in Adds
        /\ real \subseteq Bins /\ dust \subseteq Bins /\ active \in Bins /\ todo \subseteq plan
        /\ pc # "removing" => plan = {}
    BY DEF Typed, TypeOK
  <2> USE DEF removal
  \* Steps that neither take liquidity away nor change an entry.
  <2>k. ASSUME UNCHANGED reg, excused \subseteq excused', plan \subseteq plan',
               real \subseteq real',
               pc' = "mined" => pc = "mined" /\ UNCHANGED add
        PROVE  EntriesStand'
    BY <2>k DEF EntriesStand, Open
  <2>1. CASE Move \/ Age
    BY <2>1, <2>k DEF Move, Age, chain, bot
  <2>2. ASSUME NEW t \in Types, NEW left \in 0..Half, NEW right \in 0..Half,
               SendAdd(t, left, right)
        PROVE  EntriesStand'
    BY <2>2, <2>k DEF SendAdd, chain
  <2>3. CASE AddMined
    <3>0. PICK good \in SUBSET Target(add), poor \in SUBSET Target(add) :
            /\ Deliver(add, good, poor)
            /\ excused' = IF Shift(add) = 0 /\ good # {} THEN excused
                          ELSE excused \cup {add.type}
      BY <2>3 DEF AddMined
    <3>1. real' = real \cup good
      BY <3>0, <2>3, <2>t, Delivers DEF AddMined
    <3>2. UNCHANGED <<reg, plan, add>> /\ excused \subseteq excused'
      BY <2>3, <3>0 DEF AddMined
    <3>3. add.type \in excused' \/ (add.lo..add.hi) \cap real' # {}
      <4>1. CASE Shift(add) = 0 /\ good # {}
        <5>1. add.lo \in Int /\ add.hi \in Int
          BY <2>3, <2>t, LifecycleAssumption DEF AddMined, Adds, Bins
        <5>2. Target(add) = add.lo..add.hi
          BY <4>1, <5>1 DEF Target
        <5>3. PICK b \in good : TRUE
          BY <4>1
        <5>4. b \in Target(add) /\ b \in real'
          BY <3>1, <5>3
        <5> QED
          BY <5>2, <5>4
      <4>2. CASE ~(Shift(add) = 0 /\ good # {})
        BY <3>0, <4>2
      <4> QED
        BY <4>1, <4>2
    <3>4. \A t \in Open' : t \in excused' \/ reg'[t] \cap (real' \cup plan') # {}
      BY <3>1, <3>2 DEF EntriesStand, Open
    <3> QED
      BY <3>2, <3>3, <3>4 DEF EntriesStand
  <2>4. CASE AddFailed \/ AddLost
    BY <2>4, <2>k DEF AddFailed, AddLost, chain
  <2>5. ASSUME NEW a \in limbo, LateAdd(a) PROVE EntriesStand'
    <3>1. real \subseteq real'
      BY <2>5, <2>t, LateDelivers
    <3> QED
      BY <2>5, <2>k, <3>1 DEF LateAdd
  <2>6. ASSUME NEW a \in limbo, LateAddExpires(a) PROVE EntriesStand'
    BY <2>6, <2>k DEF LateAddExpires, bot
  <2>7. CASE Register
    <3> DEFINE bins == reg[add.type] \cup add.lo..add.hi
               hull == Hull(bins)
    <3>1. bins \in SUBSET Bins /\ add.type \in Types
      BY <2>7, <2>t, RangesOfAdds DEF Register
    <3>2. bins \subseteq hull
      BY <3>1, HullCovers
    <3>3. reg[add.type] \subseteq hull /\ add.lo..add.hi \subseteq hull
      BY <3>2
    <3>4. UNCHANGED <<real, plan, excused>> /\ pc' = "idle" /\ pc = "mined"
      BY <2>7 DEF Register, chain
    <3>5. CASE reg' = [reg EXCEPT ![add.type] = hull]
      <4> HIDE DEF hull
      <4>1. ASSUME NEW t \in Open'
            PROVE  t \in excused \/ reg'[t] \cap (real \cup plan) # {}
        <5>1. t \in Types /\ reg'[t] = IF t = add.type THEN hull ELSE reg[t]
          BY <2>t, <3>5 DEF Open
        <5>2. CASE t = add.type
          BY <3>3, <3>4, <5>1, <5>2 DEF EntriesStand
        <5>3. CASE t # add.type
          <6>1. t \in Open
            BY <5>1, <5>3 DEF Open
          <6> QED
            BY <5>1, <5>3, <6>1 DEF EntriesStand
        <5> QED
          BY <5>2, <5>3
      <4> QED
        BY <3>4, <4>1 DEF EntriesStand
    <3>6. CASE UNCHANGED reg
      BY <2>k, <3>4, <3>6
    <3> QED
      BY <2>7, <3>5, <3>6 DEF Register
  <2>8. CASE StartRemove
    BY <2>8, <2>t, <2>k DEF StartRemove, chain
  <2>9. CASE RemoveChunk
    <3>1. real \cup plan \subseteq real' \cup plan'
      BY <2>9, <2>t, ChunkBurns DEF RemoveChunk
    <3> QED
      BY <2>9, <3>1 DEF RemoveChunk, EntriesStand, Open
  <2>10. CASE RemoveFails
    BY <2>10 DEF RemoveFails, GiveUp, EntriesStand, Open
  <2>11. CASE Deregister
    <3>1. PICK kept \in SUBSET Affected(plan) :
            /\ reg' = [t \in Types |-> IF t \in Affected(plan) \ kept THEN {} ELSE reg[t]]
            /\ excused' = excused \cup kept
      BY <2>11 DEF Deregister
    <3>2. ASSUME NEW t \in Open'
          PROVE  t \in excused' \/ reg'[t] \cap real # {}
      <4>1. t \in Types /\ t \notin Affected(plan) \ kept /\ reg'[t] = reg[t] /\ t \in Open
        BY <3>1 DEF Open
      <4>2. CASE t \in kept
        BY <3>1, <4>2
      <4>3. CASE t \notin Affected(plan)
        BY <3>1, <4>1, <4>3 DEF Affected, EntriesStand
      <4> QED
        BY <4>1, <4>2, <4>3
    <3> QED
      BY <2>11, <3>2 DEF Deregister, chain, EntriesStand
  <2>12. CASE Stop
    <3>1. CASE pc = "removing"
      BY <2>12, <3>1 DEF Stop, GiveUp, EntriesStand, Open
    <3>2. CASE pc # "removing"
      <4>1. plan = {}
        BY <2>t, <3>2
      <4> QED
        BY <2>12, <2>k, <3>2, <4>1 DEF Stop
    <3> QED
      BY <3>1, <3>2
  <2>13. CASE Boot
    BY <2>13, <2>k DEF Boot, chain, EntriesStand, Open
  <2>14. CASE Reconcile
    <3>1. ASSUME NEW t \in Open' PROVE t \in Open /\ reg'[t] = reg[t]
      BY <2>14 DEF Reconcile, Open
    <3> QED
      BY <2>14, <3>1 DEF Reconcile, chain, EntriesStand
  <2>15. CASE StartAnyway
    BY <2>15, <2>k DEF StartAnyway, chain
  <2>17. ASSUME NEW bins \in late, LateBurn(bins) PROVE EntriesStand'
    <3>1. /\ real \ real' \subseteq bins /\ excused' = excused \cup Touched(bins)
          /\ UNCHANGED <<reg, pc, add, plan>>
      BY <2>17, LateBurns DEF LateBurn
    <3>2. ASSUME NEW t \in Open'
          PROVE  t \in excused' \/ reg'[t] \cap (real' \cup plan') # {}
      <4>1. t \in Open /\ t \in Types /\ reg'[t] = reg[t]
        BY <3>1 DEF Open
      <4>2. CASE reg[t] \cap bins # {}
        BY <3>1, <4>1, <4>2 DEF Touched, Affected
      <4>3. CASE reg[t] \cap bins = {}
        BY <3>1, <4>1, <4>3 DEF EntriesStand
      <4> QED
        BY <4>2, <4>3
    <3>3. pc' = "mined" => add'.type \in excused' \/ (add'.lo..add'.hi) \cap real' # {}
      <4> SUFFICES ASSUME pc = "mined" PROVE add.type \in excused' \/ (add.lo..add.hi) \cap real' # {}
        BY <3>1
      <4>1. add.type \in Types
        BY <2>t, RangesOfAdds
      <4>2. CASE (add.lo..add.hi) \cap bins # {}
        BY <3>1, <4>1, <4>2 DEF Touched
      <4>3. CASE (add.lo..add.hi) \cap bins = {}
        BY <3>1, <4>3 DEF EntriesStand
      <4> QED
        BY <4>2, <4>3
    <3> QED
      BY <3>2, <3>3 DEF EntriesStand
  <2>18. ASSUME NEW bins \in late, LateBurnExpires(bins) PROVE EntriesStand'
    BY <2>18, <2>k DEF LateBurnExpires, bot
  <2>16. CASE UNCHANGED vars
    BY <2>16, <2>k DEF vars
  <2> QED
    BY <2>1, <2>2, <2>3, <2>4, <2>5, <2>6, <2>7, <2>8, <2>9, <2>10, <2>11, <2>12, <2>13,
       <2>14, <2>15, <2>16, <2>17, <2>18 DEF Next
<1> QED
  BY <1>1, <1>2, LifecycleTyped, PTL DEF Spec

(* Between two operations every entry of the registry stands for liquidity, *)
(* unless a failure or a shift of the active bin has come between.          *)
THEOREM LifecycleEntriesHaveLiquidity == Spec => []EntriesHaveLiquidity
<1>1. Typed /\ EntriesStand => EntriesHaveLiquidity
  <2> SUFFICES ASSUME Typed, EntriesStand, pc = "idle", NEW t \in Open
               PROVE  t \in excused \/ reg[t] \cap real # {}
    BY DEF EntriesHaveLiquidity
  <2>1. plan = {}
    BY DEF Typed
  <2> QED
    BY <2>1 DEF EntriesStand
<1> QED
  BY <1>1, LifecycleTyped, EntriesAlwaysStand, PTL

-----------------------------------------------------------------------------
(* The search below and above what a window shows, over any set of bins.    *)
(* It stops where no bin is held within SearchChunk bins; and where it      *)
(* stops can be said without following it: at the greatest held bin, from   *)
(* where it started downwards, below which nothing is near.                 *)
Below(held, x) == held \cap (x - SearchChunk)..(x - 1)
Beyond(held, x) == held \cap (x + 1)..(x + SearchChunk)

DownFrom(held, f, x) == IF Below(held, x) = {} THEN x ELSE f[Min(Below(held, x))]
UpFrom(held, f, x) == IF Beyond(held, x) = {} THEN x ELSE f[Max(Beyond(held, x))]

Bottoms(held, x) == {y \in 0..x : (y \in held \/ y = x) /\ Below(held, y) = {}}
Tops(held, top, x) == {y \in x..top : (y \in held \/ y = x) /\ Beyond(held, y) = {}}

(* The nearest bins, and the last of them, downwards and upwards. *)
LEMMA NextBelow ==
    ASSUME NEW held \in SUBSET Nat, NEW x \in Nat, Below(held, x) # {}
    PROVE  /\ Min(Below(held, x)) \in held
           /\ Min(Below(held, x)) \in Nat
           /\ x - SearchChunk <= Min(Below(held, x)) /\ Min(Below(held, x)) < x
<1> DEFINE S == Below(held, x)
<1>1. S \in SUBSET Nat /\ S # {}
  BY DEF Below
<1>2. \A y \in S : y \in held /\ y \in Nat /\ x - SearchChunk <= y /\ y < x
  BY SearchAssumption DEF Below
<1> HIDE DEF S
<1>3. Min(S) \in S
  BY <1>1, MinIsLeast
<1> QED
  BY <1>2, <1>3 DEF S

LEMMA NextBeyond ==
    ASSUME NEW top \in Nat, NEW held \in SUBSET (0..top), NEW x \in Nat, Beyond(held, x) # {}
    PROVE  /\ Max(Beyond(held, x)) \in held
           /\ Max(Beyond(held, x)) \in Nat
           /\ x < Max(Beyond(held, x)) /\ Max(Beyond(held, x)) <= x + SearchChunk
<1> DEFINE S == Beyond(held, x)
<1>1. S \in SUBSET (0..top) /\ S # {}
  BY DEF Beyond
<1>2. \A y \in S : y \in held /\ y \in Nat /\ x < y /\ y <= x + SearchChunk
  BY SearchAssumption DEF Beyond
<1> HIDE DEF S
<1>3. Max(S) \in S
  BY <1>1, MaxIsGreatest
<1> QED
  BY <1>2, <1>3 DEF S

(* A step of the search does not change where it stops. *)
LEMMA SameBottoms ==
    ASSUME NEW held \in SUBSET Nat, NEW x \in Nat, Below(held, x) # {}
    PROVE  Bottoms(held, x) = Bottoms(held, Min(Below(held, x)))
<1> DEFINE n == Min(Below(held, x))
<1>1. n \in held /\ n \in Nat /\ x - SearchChunk <= n /\ n < x
  BY NextBelow
<1>c. SearchChunk \in Nat
  BY SearchAssumption
<1> HIDE DEF n
<1>2. ASSUME NEW y \in Bottoms(held, x) PROVE y \in Bottoms(held, n)
  <2>1. y \in Nat /\ y <= x /\ y # x /\ y \in held /\ Below(held, y) = {}
    BY <1>2 DEF Bottoms
  <2>2. y <= n
    <3> SUFFICES ASSUME n < y PROVE FALSE
      BY <1>1, <2>1
    <3>1. n \in (y - SearchChunk)..(y - 1)
      BY <1>1, <1>c, <2>1
    <3> QED
      BY <1>1, <2>1, <3>1 DEF Below
  <2> QED
    BY <1>1, <2>1, <2>2 DEF Bottoms
<1>3. ASSUME NEW y \in Bottoms(held, n) PROVE y \in Bottoms(held, x)
  <2>1. y \in Nat /\ y <= n /\ y \in held /\ Below(held, y) = {}
    BY <1>1, <1>3 DEF Bottoms
  <2> QED
    BY <1>1, <2>1 DEF Bottoms
<1> QED
  BY <1>2, <1>3 DEF n

LEMMA SameTops ==
    ASSUME NEW top \in Nat, NEW held \in SUBSET (0..top), NEW x \in 0..top,
           Beyond(held, x) # {}
    PROVE  Tops(held, top, x) = Tops(held, top, Max(Beyond(held, x)))
<1> DEFINE n == Max(Beyond(held, x))
<1>0. x \in Nat /\ \A y \in held : y <= top
  OBVIOUS
<1>1. n \in held /\ n \in Nat /\ x < n /\ n <= x + SearchChunk /\ n <= top /\ x \in Nat
  <2>1. n \in held /\ n \in Nat /\ x < n /\ n <= x + SearchChunk
    BY <1>0, NextBeyond
  <2> HIDE DEF n
  <2> QED
    BY <1>0, <2>1
<1>c. SearchChunk \in Nat
  BY SearchAssumption
<1> HIDE DEF n
<1>2. ASSUME NEW y \in Tops(held, top, x) PROVE y \in Tops(held, top, n)
  <2>1. y \in Nat /\ x <= y /\ y <= top /\ y # x /\ y \in held /\ Beyond(held, y) = {}
    BY <1>1, <1>2 DEF Tops
  <2>2. n <= y
    <3> SUFFICES ASSUME y < n PROVE FALSE
      BY <1>1, <2>1
    <3>1. n \in (y + 1)..(y + SearchChunk)
      BY <1>1, <1>c, <2>1
    <3> QED
      BY <1>1, <2>1, <3>1 DEF Beyond
  <2> QED
    BY <1>1, <2>1, <2>2 DEF Tops
<1>3. ASSUME NEW y \in Tops(held, top, n) PROVE y \in Tops(held, top, x)
  <2>1. y \in Nat /\ n <= y /\ y <= top /\ y \in held /\ Beyond(held, y) = {}
    BY <1>1, <1>3 DEF Tops
  <2> QED
    BY <1>1, <2>1 DEF Tops
<1> QED
  BY <1>2, <1>3 DEF n

(* The search downwards.  The recursion has a solution, the one that says   *)
(* where it stops, and no other: the least bin on which another differs     *)
(* refutes itself.                                                          *)
LEMMA LowestIs ==
    ASSUME NEW held \in SUBSET Nat, NEW m \in Nat
    PROVE  LowestFrom(held, m) = Max(Bottoms(held, m))
<1> DEFINE down == [x \in 0..m |-> Max(Bottoms(held, x))]
           Equation(f) == f = [x \in 0..m |-> DownFrom(held, f, x)]
           chosen == CHOOSE f : Equation(f)
<1>1. ASSUME NEW x \in 0..m PROVE DownFrom(held, down, x) = down[x]
  <2>0. x \in Nat /\ x <= m
    OBVIOUS
  <2>1. CASE Below(held, x) = {}
    <3>1. x \in Bottoms(held, x) /\ \A y \in Bottoms(held, x) : y <= x
      BY <2>0, <2>1 DEF Bottoms
    <3>2. Bottoms(held, x) \in SUBSET (0..x)
      BY DEF Bottoms
    <3>3. /\ Max(Bottoms(held, x)) \in Bottoms(held, x)
          /\ \A y \in Bottoms(held, x) : y <= Max(Bottoms(held, x))
      BY <2>0, <3>1, <3>2, MaxIsGreatest
    <3>4. Max(Bottoms(held, x)) = x
      <4> DEFINE M == Max(Bottoms(held, x))
      <4>1. M \in 0..x /\ x <= M
        BY <3>1, <3>2, <3>3
      <4> HIDE DEF M
      <4>2. M = x
        BY <2>0, <4>1
      <4> QED
        BY <4>2 DEF M
    <3> QED
      BY <2>1, <3>4 DEF DownFrom
  <2>2. CASE Below(held, x) # {}
    <3>1. Min(Below(held, x)) \in 0..m
      <4> DEFINE n == Min(Below(held, x))
      <4>1. n \in Nat /\ n < x
        BY <2>0, <2>2, NextBelow
      <4> HIDE DEF n
      <4>2. n \in 0..m
        BY <2>0, <4>1
      <4> QED
        BY <4>2 DEF n
    <3>2. Bottoms(held, x) = Bottoms(held, Min(Below(held, x)))
      BY <2>0, <2>2, SameBottoms
    <3> QED
      BY <2>2, <3>1, <3>2 DEF DownFrom
  <2> QED
    BY <2>1, <2>2
<1>2. Equation(down)
  <2>1. [x \in 0..m |-> DownFrom(held, down, x)] = [x \in 0..m |-> down[x]]
    BY <1>1
  <2> QED
    BY <2>1
<1>m. down[m] = Max(Bottoms(held, m))
  OBVIOUS
<1> HIDE DEF down
<1>3. Equation(chosen)
  <2> HIDE DEF Equation
  <2> QED
    BY <1>2
<1>4. LowestFrom(held, m) = chosen[m]
  BY DEF LowestFrom, DownFrom, Below
<1> HIDE DEF chosen
<1>5. \A x \in 0..m : chosen[x] = DownFrom(held, chosen, x)
  BY <1>3
<1>6. chosen[m] = down[m]
  <2> DEFINE bad == {x \in 0..m : chosen[x] # down[x]}
  <2> SUFFICES ASSUME bad # {} PROVE FALSE
    BY DEF bad
  <2>1. PICK x \in bad : \A y \in bad : x <= y
    <3>1. bad \in SUBSET Nat
      OBVIOUS
    <3> HIDE DEF bad
    <3> QED
      BY <3>1, LeastExists
  <2>2. x \in 0..m /\ x \in Nat /\ chosen[x] # down[x]
    BY <2>1
  <2>3. chosen[x] = DownFrom(held, chosen, x) /\ down[x] = DownFrom(held, down, x)
    BY <1>1, <1>5, <2>2
  <2>4. CASE Below(held, x) = {}
    BY <2>2, <2>3, <2>4 DEF DownFrom
  <2>5. CASE Below(held, x) # {}
    <3> DEFINE n == Min(Below(held, x))
    <3>1. n \in Nat /\ n < x
      BY <2>2, <2>5, NextBelow
    <3>2. chosen[x] = chosen[n] /\ down[x] = down[n]
      BY <2>3, <2>5 DEF DownFrom
    <3> HIDE DEF n
    <3>3. n \in 0..m /\ ~(x <= n)
      BY <2>2, <3>1
    <3>4. n \notin bad
      BY <2>1, <3>3
    <3>5. chosen[n] = down[n]
      BY <3>3, <3>4
    <3> QED
      BY <2>2, <3>2, <3>5
  <2> QED
    BY <2>4, <2>5
<1> QED
  BY <1>4, <1>6, <1>m

LEMMA HighestIs ==
    ASSUME NEW top \in Nat, NEW held \in SUBSET (0..top), NEW m \in 0..top, Max(held) = top
    PROVE  HighestFrom(held, m) = Min(Tops(held, top, m))
<1> DEFINE up == [x \in m..top |-> Min(Tops(held, top, x))]
           Equation(f) == f = [x \in m..top |-> UpFrom(held, f, x)]
           chosen == CHOOSE f : Equation(f)
<1>m. m \in Nat /\ m <= top /\ m \in m..top /\ up[m] = Min(Tops(held, top, m))
  OBVIOUS
<1>1. ASSUME NEW x \in m..top PROVE UpFrom(held, up, x) = up[x]
  <2>0. x \in Nat /\ m <= x /\ x <= top /\ x \in 0..top
    BY <1>m
  <2>1. CASE Beyond(held, x) = {}
    <3>1. x \in Tops(held, top, x) /\ \A y \in Tops(held, top, x) : x <= y
      BY <2>0, <2>1 DEF Tops
    <3>2. Tops(held, top, x) \in SUBSET Nat
      BY <2>0 DEF Tops
    <3>3. /\ Min(Tops(held, top, x)) \in Tops(held, top, x)
          /\ \A y \in Tops(held, top, x) : Min(Tops(held, top, x)) <= y
      BY <3>1, <3>2, MinIsLeast
    <3>4. Min(Tops(held, top, x)) = x
      <4> DEFINE M == Min(Tops(held, top, x))
      <4>1. M \in Nat /\ x <= M /\ M <= x
        BY <3>1, <3>2, <3>3
      <4> HIDE DEF M
      <4>2. M = x
        BY <2>0, <4>1
      <4> QED
        BY <4>2 DEF M
    <3> QED
      BY <2>1, <3>4 DEF UpFrom
  <2>2. CASE Beyond(held, x) # {}
    <3>1. Max(Beyond(held, x)) \in m..top
      <4> DEFINE n == Max(Beyond(held, x))
      <4>1. n \in held /\ n \in Nat /\ x < n
        BY <2>0, <2>2, NextBeyond
      <4> HIDE DEF n
      <4>2. n \in m..top
        BY <1>m, <2>0, <4>1
      <4> QED
        BY <4>2 DEF n
    <3>2. Tops(held, top, x) = Tops(held, top, Max(Beyond(held, x)))
      BY <2>0, <2>2, SameTops
    <3> QED
      BY <2>2, <3>1, <3>2 DEF UpFrom
  <2> QED
    BY <2>1, <2>2
<1>2. Equation(up)
  <2>1. [x \in m..top |-> UpFrom(held, up, x)] = [x \in m..top |-> up[x]]
    BY <1>1
  <2> QED
    BY <2>1
<1> HIDE DEF up
<1>3. Equation(chosen)
  <2> HIDE DEF Equation
  <2> QED
    BY <1>2
<1>4. HighestFrom(held, m) = chosen[m]
  BY DEF HighestFrom, UpFrom, Beyond
<1> HIDE DEF chosen
<1>5. \A x \in m..top : chosen[x] = UpFrom(held, chosen, x)
  BY <1>3
<1>6. chosen[m] = up[m]
  <2> DEFINE bad == {k \in 0..(top - m) : chosen[top - k] # up[top - k]}
  <2>1. CASE bad = {}
    <3>1. top - m \in 0..(top - m) /\ top - (top - m) = m
      BY <1>m
    <3> QED
      BY <2>1, <3>1
  <2>2. CASE bad # {}
    <3>1. PICK k \in bad : \A j \in bad : k <= j
      <4>1. bad \in SUBSET Nat
        OBVIOUS
      <4> HIDE DEF bad
      <4> QED
        BY <2>2, <4>1, LeastExists
    <3> DEFINE x == top - k
    <3>2. k \in Nat /\ x \in m..top /\ x \in Nat /\ chosen[x] # up[x] /\ k = top - x
      BY <1>m, <3>1
    <3> HIDE DEF x
    <3>3. chosen[x] = UpFrom(held, chosen, x) /\ up[x] = UpFrom(held, up, x)
      BY <1>1, <1>5, <3>2
    <3>4. CASE Beyond(held, x) = {}
      BY <3>2, <3>3, <3>4 DEF UpFrom
    <3>5. CASE Beyond(held, x) # {}
      <4> DEFINE n == Max(Beyond(held, x))
      <4>1. n \in held /\ n \in Nat /\ x < n
        BY <3>2, <3>5, NextBeyond
      <4>2. chosen[x] = chosen[n] /\ up[x] = up[n]
        BY <3>3, <3>5 DEF UpFrom
      <4> HIDE DEF n
      <4>3. n \in Nat /\ n <= top /\ m <= x
        BY <3>2, <4>1
      <4>4. top - n \in 0..(top - m) /\ ~(k <= top - n) /\ top - (top - n) = n
        BY <1>m, <3>2, <4>1, <4>3
      <4>5. top - n \notin bad
        BY <3>1, <4>4
      <4>6. chosen[n] = up[n]
        BY <4>4, <4>5
      <4> QED
        BY <3>2, <4>2, <4>6
    <3> QED
      BY <3>4, <3>5
  <2> QED
    BY <2>1, <2>2
<1> QED
  BY <1>4, <1>6, <1>m

(* From a held bin the search comes to a held bin next to which nothing is  *)
(* held for SearchChunk bins, and passes none on the way.                   *)
LEMMA LowestStops ==
    ASSUME NEW held \in SUBSET Nat, NEW m \in held
    PROVE  /\ LowestFrom(held, m) \in held /\ LowestFrom(held, m) \in Nat
           /\ LowestFrom(held, m) <= m
           /\ Below(held, LowestFrom(held, m)) = {}
           /\ \A y \in held : LowestFrom(held, m) < y /\ y <= m => Below(held, y) # {}
<1> DEFINE S == Bottoms(held, m)
           l == Max(S)
<1>0. m \in Nat
  OBVIOUS
<1>1. Min(held) \in held /\ \A y \in held : Min(held) <= y
  BY MinIsLeast
<1>2. Min(held) \in S
  <2> DEFINE n == Min(held)
  <2>1. n \in held /\ n \in Nat /\ n <= m /\ \A y \in held : n <= y
    BY <1>1
  <2> HIDE DEF n
  <2>2. Below(held, n) = {}
    <3> SUFFICES ASSUME NEW y \in held, y \in (n - SearchChunk)..(n - 1) PROVE FALSE
      BY DEF Below
    <3> QED
      BY <2>1, SearchAssumption
  <2>3. n \in S
    BY <1>0, <2>1, <2>2 DEF Bottoms
  <2> QED
    BY <2>3 DEF n
<1>3. S \in SUBSET (0..m) /\ S # {}
  BY <1>2 DEF Bottoms
<1>4. /\ \A y \in S : y \in held /\ Below(held, y) = {}
      /\ \A y \in held : y <= m /\ Below(held, y) = {} => y \in S
  BY <1>0 DEF Bottoms
<1> HIDE DEF S
<1>5. l \in S /\ \A y \in S : y <= l
  BY <1>0, <1>3, MaxIsGreatest
<1> HIDE DEF l
<1>6. l \in held /\ l \in Nat /\ l <= m /\ Below(held, l) = {}
  BY <1>0, <1>3, <1>4, <1>5
<1>7. ASSUME NEW y \in held, l < y, y <= m PROVE Below(held, y) # {}
  <2>1. y \in Nat /\ ~(y <= l)
    BY <1>6, <1>7
  <2> QED
    BY <1>4, <1>5, <1>7, <2>1
<1> QED
  BY <1>0, <1>6, <1>7, LowestIs DEF l, S

LEMMA HighestStops ==
    ASSUME NEW top \in Nat, NEW held \in SUBSET (0..top), NEW m \in held
    PROVE  /\ HighestFrom(held, m) \in held /\ HighestFrom(held, m) \in Nat
           /\ m <= HighestFrom(held, m)
           /\ Beyond(held, HighestFrom(held, m)) = {}
           /\ \A y \in held : m <= y /\ y < HighestFrom(held, m) => Beyond(held, y) # {}
<1> DEFINE last == Max(held)
           S == Tops(held, last, m)
           h == Min(S)
<1>0. m \in Nat /\ held \in SUBSET Nat
  OBVIOUS
<1>1. last \in held /\ \A y \in held : y <= last
  BY MaxIsGreatest
<1>2. last \in Nat /\ held \in SUBSET (0..last) /\ m \in 0..last
  <2> HIDE DEF last
  <2>1. last \in Nat
    BY <1>0, <1>1
  <2> QED
    BY <1>0, <1>1, <2>1
<1>3. last \in S
  <2> HIDE DEF last
  <2>1. Beyond(held, last) = {}
    <3> SUFFICES ASSUME NEW y \in held, y \in (last + 1)..(last + SearchChunk) PROVE FALSE
      BY DEF Beyond
    <3> QED
      BY <1>0, <1>1, <1>2, SearchAssumption
  <2> QED
    BY <1>1, <1>2, <2>1 DEF Tops
<1>h. HighestFrom(held, m) = h
  BY <1>2, HighestIs
<1> HIDE DEF last
<1>4. /\ S \in SUBSET Nat /\ S # {}
      /\ \A y \in S : y \in held /\ m <= y /\ Beyond(held, y) = {}
      /\ \A y \in held : m <= y /\ Beyond(held, y) = {} => y \in S
  <2>1. S \in SUBSET Nat /\ S # {}
    BY <1>0, <1>2, <1>3 DEF Tops
  <2>2. \A y \in S : y \in held /\ m <= y /\ Beyond(held, y) = {}
    BY <1>0, <1>2 DEF Tops
  <2>3. \A y \in held : m <= y /\ Beyond(held, y) = {} => y \in S
    BY <1>0, <1>1, <1>2 DEF Tops
  <2> QED
    BY <2>1, <2>2, <2>3
<1> HIDE DEF S
<1>5. h \in S /\ \A y \in S : h <= y
  BY <1>4, MinIsLeast
<1> HIDE DEF h
<1>6. h \in held /\ h \in Nat /\ m <= h /\ Beyond(held, h) = {}
  BY <1>0, <1>4, <1>5
<1>7. ASSUME NEW y \in held, m <= y, y < h PROVE Beyond(held, y) # {}
  <2>1. y \in Nat /\ ~(h <= y)
    BY <1>0, <1>6, <1>7
  <2> QED
    BY <1>4, <1>5, <1>7, <2>1
<1> QED
  BY <1>h, <1>6, <1>7

(* Through a position without holes the search comes to its ends. *)
LEMMA SearchOfWhole ==
    ASSUME NEW a \in Nat, NEW b \in Nat, NEW m \in a..b
    PROVE  LowestFrom(a..b, m) = a /\ HighestFrom(a..b, m) = b
<1>0. SearchChunk \in Nat /\ SearchChunk >= 1
  BY SearchAssumption
<1>1. a..b \in SUBSET (0..b) /\ a..b \in SUBSET Nat
  OBVIOUS
<1> DEFINE l == LowestFrom(a..b, m)
           h == HighestFrom(a..b, m)
<1>2. l \in a..b /\ Below(a..b, l) = {}
  BY <1>1, LowestStops
<1>3. h \in a..b /\ Beyond(a..b, h) = {}
  BY <1>1, HighestStops
<1> HIDE DEF l, h
<1>4. l = a
  <2> SUFFICES ASSUME l # a PROVE FALSE
    OBVIOUS
  <2>1. l - 1 \in a..b /\ l - 1 \in (l - SearchChunk)..(l - 1)
    BY <1>0, <1>2
  <2> QED
    BY <1>2, <2>1 DEF Below
<1>5. h = b
  <2> SUFFICES ASSUME h # b PROVE FALSE
    OBVIOUS
  <2>1. h + 1 \in a..b /\ h + 1 \in (h + 1)..(h + SearchChunk)
    BY <1>0, <1>3
  <2> QED
    BY <1>3, <2>1 DEF Beyond
<1> QED
  BY <1>4, <1>5 DEF l, h

Widest == Widths[Len(Widths)]

LEMMA WindowsGrow ==
    ASSUME NEW c \in Nat, NEW i \in 1..Len(Widths)
    PROVE  /\ Widths[i] \in Nat /\ Widest \in Nat
           /\ Window(c, Widths[i]) \subseteq Window(c, Widest)
           /\ From(c, Widths[i]) \in Nat /\ From(c, Widths[i]) <= c
<1>1. Len(Widths) \in 1..Len(Widths) /\ Len(Widths) \in Nat
  BY WidthsAssumption
<1>2. \A j \in 1..Len(Widths) : Widths[j] \in Nat
  BY WidthsAssumption
<1>3. Widths[i] <= Widest
  <2>1. CASE i = Len(Widths)
    BY <1>2, <2>1 DEF Widest
  <2>2. CASE i # Len(Widths)
    BY <1>1, <1>2, <2>2, WidthsAssumption DEF Widest
  <2> QED
    BY <2>1, <2>2
<1>4. Widths[i] \in Nat /\ Widest \in Nat
  BY <1>1, <1>2 DEF Widest
<1> DEFINE w == Widths[i]
<1> HIDE DEF w
<1>5. /\ w \in Nat /\ w <= Widest
  BY <1>3, <1>4 DEF w
<1>6. /\ Window(c, w) \subseteq Window(c, Widest)
      /\ From(c, w) \in Nat /\ From(c, w) <= c
  BY <1>4, <1>5 DEF Window, From
<1> QED
  BY <1>4, <1>6 DEF w

(* A window that settles the question holds all of a position without holes. *)
LEMMA SettledIsWhole ==
    ASSUME NEW a \in Nat, NEW b \in Nat, NEW c \in Nat, NEW i \in 1..Len(Widths),
           Settles(a..b, c, Widths[i])
    PROVE  a..b \subseteq Window(c, Widths[i])
<1> DEFINE w == Widths[i]
           l == From(c, w)
           r == c + w
<1>1. w \in Nat /\ l \in Nat /\ r \in Nat
  <2>1. w \in Nat /\ l \in Nat
    BY WindowsGrow
  <2> HIDE DEF w
  <2> QED
    BY <2>1
<1>2. PICK x \in a..b : x \in l..r
  BY DEF Settles, Window
<1>3. l \notin a..b /\ r \notin a..b
  BY DEF Settles
<1> HIDE DEF l, r
<1>4. \A y \in a..b : l <= y /\ y <= r
  BY <1>1, <1>2, <1>3
<1>5. ASSUME NEW y \in a..b PROVE y \in l..r
  <2>1. y \in Int /\ l <= y /\ y <= r
    BY <1>4
  <2> QED
    BY ONLY <1>1, <2>1
<1> QED
  BY <1>5 DEF Window, l, r

(* A position without holes, any bin of which lies in the widest window, is *)
(* found whole by _discover_bins_near_active, whichever window answers.     *)
THEOREM WholeIsFound ==
    ASSUME NEW top \in Nat, NEW held \in SUBSET (0..top), NEW c \in Nat
    PROVE  FoundWhole(held, c)
<1> SUFFICES ASSUME Contiguous(held), held \cap Window(c, Widest) # {}
             PROVE  Discovered(held, c) = held
  BY DEF FoundWhole, Widest
<1> DEFINE a == Min(held)
           b == Max(held)
<1>1. held # {} /\ held \in SUBSET Nat
  OBVIOUS
<1>2. a \in held /\ b \in held
  BY <1>1, MinIsLeast, MaxIsGreatest
<1>3. held = a..b
  BY <1>1 DEF Contiguous
<1>4. a \in Nat /\ b \in Nat
  BY <1>1, <1>2
<1> HIDE DEF a, b
<1> DEFINE settled == {i \in 1..Len(Widths) : Settles(held, c, Widths[i])}
           seeds   == held \cap Window(c, Widest)
<1>5. Discovered(held, c) =
        IF settled # {} THEN held \cap Window(c, Widths[Min(settled)])
        ELSE IF seeds = {} THEN {}
        ELSE held \cap LowestFrom(held, Min(seeds))..HighestFrom(held, Max(seeds))
  BY DEF Discovered, Widest
<1>6. CASE settled # {}
  <2>1. settled \in SUBSET Nat
    BY WidthsAssumption
  <2>2. Min(settled) \in settled
    <3> HIDE DEF settled
    <3> QED
      BY <1>6, <2>1, MinIsLeast
  <2> DEFINE i == Min(settled)
  <2>3. i \in 1..Len(Widths) /\ Settles(held, c, Widths[i])
    BY <2>2
  <2> HIDE DEF i
  <2>4. held \subseteq Window(c, Widths[i])
    BY <1>3, <1>4, <2>3, SettledIsWhole
  <2> QED
    BY <1>5, <1>6, <2>4 DEF i
<1>7. CASE settled = {}
  <2>1. seeds # {} /\ seeds \in SUBSET Nat /\ seeds \in SUBSET (0..top)
    BY <1>1
  <2> HIDE DEF settled
  <2> DEFINE lowest == Min(seeds)
             highest == Max(seeds)
  <2>2. lowest \in seeds /\ highest \in seeds
    <3> HIDE DEF seeds
    <3> QED
      BY <2>1, MinIsLeast, MaxIsGreatest
  <2>3. lowest \in a..b /\ highest \in a..b
    BY <1>3, <2>2
  <2>4. Discovered(held, c) = held \cap LowestFrom(held, lowest)..HighestFrom(held, highest)
    BY <1>5, <1>7, <2>1
  <2> HIDE DEF lowest, highest, seeds
  <2>5. LowestFrom(held, lowest) = a /\ HighestFrom(held, highest) = b
    BY <1>3, <1>4, <2>3, SearchOfWhole
  <2> QED
    BY <1>3, <2>4, <2>5
<1> QED
  BY <1>6, <1>7

(* Where no window settles the question, what is found is what the widest   *)
(* one shows, gone on from as far as held bins lie within SearchChunk of    *)
(* each other and no farther: with holes or without, for every set of bins, *)
(* every active bin and every list of windows.                              *)
THEOREM ConnectedIsFound ==
    ASSUME NEW top \in Nat, NEW held \in SUBSET (0..top), NEW c \in Nat
    PROVE  FoundIsConnected(held, c)
<1> DEFINE found == Discovered(held, c)
           seeds == held \cap Window(c, Widest)
<1> SUFFICES ASSUME \A i \in 1..Len(Widths) : ~Settles(held, c, Widths[i]), found # {}
             PROVE  /\ seeds \subseteq found
                    /\ held \cap (Min(found) - SearchChunk)..(Max(found) + SearchChunk) = found
                    /\ \A x, y \in found : x < y /\ y - x > SearchChunk =>
                           (x + 1)..(y - 1) \cap (found \cup Window(c, Widest)) # {}
  BY DEF FoundIsConnected, Widest
<1>0. /\ SearchChunk \in Nat /\ SearchChunk >= 1
      /\ held \in SUBSET Nat /\ \A y \in held : y \in Nat /\ y <= top
  BY SearchAssumption
<1> DEFINE a == Min(seeds)
           b == Max(seeds)
           l == LowestFrom(held, a)
           h == HighestFrom(held, b)
<1>1. seeds # {} /\ found = held \cap l..h
  BY DEF Discovered, Widest
<1>2. /\ a \in held /\ a \in Window(c, Widest) /\ b \in held /\ b \in Window(c, Widest)
      /\ \A y \in seeds : a <= y /\ y <= b
  <2>1. seeds \in SUBSET Nat /\ seeds \in SUBSET (0..top)
    BY <1>0
  <2>2. a \in seeds /\ b \in seeds /\ \A y \in seeds : a <= y /\ y <= b
    <3> HIDE DEF seeds
    <3> QED
      BY <1>1, <2>1, MinIsLeast, MaxIsGreatest
  <2> QED
    BY <2>2
<1> HIDE DEF a, b
<1>3. /\ l \in held /\ l \in Nat /\ l <= a /\ Below(held, l) = {}
      /\ \A y \in held : l < y /\ y <= a => Below(held, y) # {}
  BY <1>0, <1>2, LowestStops
<1>4. /\ h \in held /\ h \in Nat /\ b <= h /\ Beyond(held, h) = {}
      /\ \A y \in held : b <= y /\ y < h => Beyond(held, y) # {}
  BY <1>0, <1>2, HighestStops
<1> HIDE DEF l, h
<1>5. a \in Nat /\ b \in Nat /\ a <= b
  BY <1>0, <1>2 DEF Window
<1>6. \A y \in found : y \in held /\ y \in Nat /\ l <= y /\ y <= h
  BY <1>0, <1>1
<1>7. \A y \in held : l <= y /\ y <= h => y \in found
  BY <1>0, <1>1, <1>3, <1>4
<1>8. l \in found /\ h \in found
  BY <1>3, <1>4, <1>5, <1>7
<1>9. Min(found) = l /\ Max(found) = h
  <2>1. found \in SUBSET Nat /\ found \in SUBSET (0..top)
    BY <1>0, <1>6
  <2> HIDE DEF found
  <2>2. Min(found) \in found /\ \A y \in found : Min(found) <= y
    BY <2>1, MinIsLeast
  <2>3. Max(found) \in found /\ \A y \in found : y <= Max(found)
    BY <2>1, MaxIsGreatest
  <2> DEFINE least == Min(found)
             most == Max(found)
  <2> HIDE DEF least, most
  <2>4. least \in Nat /\ least <= l /\ l <= least
    BY <1>6, <1>8, <2>2 DEF least
  <2>5. most \in Nat /\ most <= h /\ h <= most
    BY <1>6, <1>8, <2>3 DEF most
  <2> QED
    BY <1>3, <1>4, <2>4, <2>5 DEF least, most
<1> HIDE DEF found
<1>10. ASSUME NEW y \in seeds PROVE y \in found
  <2>1. y \in held /\ y \in Nat /\ a <= y /\ y <= b
    BY <1>0, <1>2
  <2>2. l <= y /\ y <= h
    BY <1>3, <1>4, <1>5, <2>1
  <2> QED
    BY <1>7, <2>1, <2>2
<1>11. held \cap (l - SearchChunk)..(h + SearchChunk) = found
  <2>1. ASSUME NEW y \in held, y \in (l - SearchChunk)..(h + SearchChunk)
        PROVE  y \in found
    <3>1. y \in Nat
      BY <1>0
    <3>2. ~(y < l)
      <4> SUFFICES ASSUME y < l PROVE FALSE
        OBVIOUS
      <4>1. y \in (l - SearchChunk)..(l - 1)
        BY <1>0, <1>3, <2>1, <3>1
      <4> QED
        BY <1>3, <2>1, <4>1 DEF Below
    <3>3. ~(y > h)
      <4> SUFFICES ASSUME y > h PROVE FALSE
        OBVIOUS
      <4>1. y \in (h + 1)..(h + SearchChunk)
        BY <1>0, <1>4, <2>1, <3>1
      <4> QED
        BY <1>4, <2>1, <4>1 DEF Beyond
    <3> QED
      BY <1>3, <1>4, <1>7, <3>1, <3>2, <3>3
  <2>2. ASSUME NEW y \in found
        PROVE  y \in held /\ y \in (l - SearchChunk)..(h + SearchChunk)
    BY <1>0, <1>3, <1>4, <1>6
  <2> QED
    BY <2>1, <2>2
<1>12. ASSUME NEW x \in found, NEW y \in found, x < y, y - x > SearchChunk
       PROVE  (x + 1)..(y - 1) \cap (found \cup Window(c, Widest)) # {}
  <2>1. x \in Nat /\ y \in Nat /\ x \in held /\ y \in held
    BY <1>6
  <2>2. CASE y <= a
    <3>1. PICK z \in held : z \in (y - SearchChunk)..(y - 1)
      BY <1>3, <1>6, <1>12, <2>1, <2>2 DEF Below
    <3>2. z \in Nat /\ x < z /\ z < y
      BY <1>0, <1>12, <2>1, <3>1
    <3>3. z \in found
      BY <1>3, <1>4, <1>6, <1>7, <2>1, <3>2
    <3> QED
      BY <2>1, <3>2, <3>3
  <2>3. CASE b <= x
    <3>1. PICK z \in held : z \in (x + 1)..(x + SearchChunk)
      BY <1>4, <1>6, <1>12, <2>1, <2>3 DEF Beyond
    <3>2. z \in Nat /\ x < z /\ z < y
      BY <1>0, <1>12, <2>1, <3>1
    <3>3. z \in found
      BY <1>3, <1>4, <1>6, <1>7, <2>1, <3>2
    <3> QED
      BY <2>1, <3>2, <3>3
  <2>4. CASE a < y /\ x < a
    <3>1. a \in found
      BY <1>2, <1>3, <1>4, <1>5, <1>7
    <3> QED
      BY <1>5, <2>1, <2>4, <3>1
  <2>5. CASE x < b /\ b < y
    <3>1. b \in found
      BY <1>2, <1>3, <1>4, <1>5, <1>7
    <3> QED
      BY <1>5, <2>1, <2>5, <3>1
  <2>6. CASE a <= x /\ y <= b
    <3>1. x + 1 \in Window(c, Widest)
      <4>1. Widest \in Nat
        BY WidthsAssumption DEF Widest
      <4> DEFINE from == From(c, Widest)
                 to == c + Widest
      <4>2. from \in Nat /\ to \in Nat
        BY <4>1 DEF From
      <4>3. a \in from..to /\ b \in from..to
        BY <1>2 DEF Window
      <4> HIDE DEF from, to
      <4>4. x + 1 \in from..to
        BY <1>5, <1>12, <2>1, <2>6, <4>2, <4>3
      <4> QED
        BY <4>4 DEF Window, from, to
    <3>2. x + 1 \in (x + 1)..(y - 1)
      BY <1>0, <1>12, <2>1
    <3> QED
      BY <3>1, <3>2
  <2> QED
    BY <1>5, <2>1, <2>2, <2>3, <2>4, <2>5, <2>6
<1> QED
  BY <1>9, <1>10, <1>11, <1>12

(* What is found at all is found by way of the widest window. *)
LEMMA FoundMeansInReach ==
    ASSUME NEW held, NEW c \in Nat, Discovered(held, c) # {}
    PROVE  held \cap Window(c, Widest) # {}
<1> DEFINE settled == {i \in 1..Len(Widths) : Settles(held, c, Widths[i])}
<1>1. CASE settled # {}
  <2>1. PICK i \in 1..Len(Widths) : Settles(held, c, Widths[i])
    BY <1>1
  <2>2. Window(c, Widths[i]) \subseteq Window(c, Widest)
    BY WindowsGrow
  <2> QED
    BY <2>1, <2>2 DEF Settles
<1>2. CASE settled = {}
  BY <1>2 DEF Discovered, Widest
<1> QED
  BY <1>1, <1>2

(* What the bot holds is within the bins of the pool.                       *)
LEMMA HeldIsBounded ==
    ASSUME Typed
    PROVE  Held \in SUBSET (0..TopBin) /\ active \in Nat /\ TopBin \in Nat
BY LifecycleAssumption DEF Typed, TypeOK, Held, Bins

(* Whatever was added, lost, burnt or left behind, a position without holes *)
(* in reach of the widest window is found whole.                            *)
THEOREM LifecycleFindsWhole == Spec => []FindsWhole
<1>1. Typed => FindsWhole
  BY HeldIsBounded, WholeIsFound DEF FindsWhole
<1> QED
  BY <1>1, LifecycleTyped, PTL

(* With holes, the widening ends at a hole of SearchChunk bins and no other.*)
THEOREM LifecycleWidensToTheEnd == Spec => []WidensToTheEnd
<1>1. Typed => WidensToTheEnd
  BY HeldIsBounded, ConnectedIsFound DEF WidensToTheEnd
<1> QED
  BY <1>1, LifecycleTyped, PTL

(* A removal of a position without holes sets out to burn all of its        *)
(* liquidity, as soon as it sees any of it.                                 *)
THEOREM LifecycleRemovalTakesAll == Spec => RemovalTakesAll
<1> DEFINE Step == pc # "removing" /\ pc' = "removing" /\ Contiguous(Held) => todo' = real
<1>1. ASSUME Typed, [Next]_vars PROVE Step
  <2> SUFFICES ASSUME pc # "removing", pc' = "removing", Contiguous(Held)
               PROVE  todo' = real
    OBVIOUS
  <2>1. StartRemove
    BY <1>1 DEF Next, vars, Move, Age, SendAdd, AddMined, AddFailed, AddLost, LateAdd,
                LateAddExpires, LateBurn, LateBurnExpires, Register, RemoveChunk, RemoveFails,
                Deregister, Stop, Boot, Reconcile, StartAnyway, bot
  <2>2. todo' = real \cap Discovered(Held, active) /\ Discovered(Held, active) # {}
    BY <2>1 DEF StartRemove, Visible
  <2>3. Held \in SUBSET (0..TopBin) /\ active \in Nat /\ TopBin \in Nat
    BY <1>1, HeldIsBounded
  <2>4. Discovered(Held, active) = Held
    <3>1. Held \cap Window(active, Widest) # {}
      BY <2>2, <2>3, FoundMeansInReach
    <3>2. FoundWhole(Held, active)
      BY <2>3, WholeIsFound
    <3> QED
      BY <3>1, <3>2 DEF FoundWhole, Widest
  <2> QED
    BY <2>2, <2>4 DEF Held
<1>2. Typed /\ [Next]_vars => [Step]_vars
  BY <1>1
<1> QED
  BY <1>2, LifecycleTyped, PTL DEF Spec, RemovalTakesAll
=============================================================================
