--------------------------- MODULE FarmCycleProofs ---------------------------
(***************************************************************************)
(* What holds of the farming loop for every hold, cooldown, number of      *)
(* failures the breaker lets through and number of entries on each other.  *)
(***************************************************************************)
EXTENDS FarmCycle, TLAPS

LEMMA ConstantsType ==
    /\ DayHold \in Nat /\ NightHold \in Nat /\ Cooldown \in Nat
    /\ MaxFailures \in Nat \ {0} /\ MaxLayers \in Nat \ {0}
BY CycleAssumption

-----------------------------------------------------------------------------
(* The breaker.  FailuresAreCounted does not last by itself: an exit that   *)
(* fails counts one more, so the count is below the limit as long as one is *)
(* under way that may still fail; and once a removal has succeeded the rest *)
(* of the call may reset the count, so nothing is wasted then.              *)
BreakerHolds ==
    /\ step \in Steps
    /\ failures \in 0..MaxFailures
    /\ wasted \in 0..(MaxFailures + 1)
    /\ wasted <= failures
    /\ step \in {"exit", "account"} => failures < MaxFailures
    /\ step \in {"account", "policy", "reselect", "reenter"} => wasted = 0

LEMMA BreakerInit == Init => BreakerHolds
BY ConstantsType DEF Init, BreakerHolds, Steps

(* Every step of the loop, of time, of others and of the process. *)
LEMMA BreakerStep == BreakerHolds /\ [Next]_vars => BreakerHolds'
<1> SUFFICES ASSUME BreakerHolds, [Next]_vars
             PROVE  BreakerHolds'
  OBVIOUS
<1> USE ConstantsType DEF BreakerHolds, Steps
<1>1. CASE Look
  BY <1>1 DEF Look, counts
<1>2. CASE Decide
  BY <1>2 DEF Decide, GatesOpen, counts
<1>3. CASE Enter
  BY <1>3 DEF Enter, counts
<1>4. CASE RemoveOk
  BY <1>4 DEF RemoveOk
<1>5. CASE RemoveFails
  BY <1>5 DEF RemoveFails, EndInError, Older
<1>6. CASE Account
  BY <1>6 DEF Account, EndInError
<1>7. CASE Policy
  BY <1>7 DEF Policy, EndWell
<1>8. CASE Reselect
  BY <1>8 DEF Reselect, CloseEvent, EndWell, EndOutside
<1>9. CASE Reenter
  <2>1. /\ step = "reenter" /\ wasted' = wasted
        /\ \E status \in {"entered", "exit_only", "error"} : CloseEvent(status)
    BY <1>9 DEF Reenter
  <2>2. step' = "sleep" /\ failures' \in {0, failures}
    BY <2>1 DEF CloseEvent, EndWell, EndOutside
  <2> QED
    BY <2>1, <2>2
<1>10. CASE Tick \/ OthersAdd \/ OthersRemove
  BY <1>10 DEF Tick, OthersAdd, OthersRemove, counts
<1>11. CASE Stop
  BY <1>11 DEF Stop, counts
<1>12. CASE Start
  BY <1>12 DEF Start
<1>13. CASE UNCHANGED vars
  BY <1>13 DEF vars, counts
<1> QED
  BY <1>1, <1>2, <1>3, <1>4, <1>5, <1>6, <1>7, <1>8, <1>9, <1>10, <1>11, <1>12,
     <1>13 DEF Next, BotStep

(* No failed removal escapes the breaker, and none is tried once it has     *)
(* tripped, whatever the limit.                                             *)
THEOREM FailuresCounted == Spec => []FailuresAreCounted
<1>1. BreakerHolds => FailuresAreCounted
  BY ConstantsType DEF BreakerHolds, FailuresAreCounted
<1> QED
  BY <1>1, BreakerInit, BreakerStep, PTL DEF Spec

-----------------------------------------------------------------------------
(* The events.  While a call that has removed a position is under way, its  *)
(* event is a new one, which says nothing of an entry.                      *)
EventsHold ==
    /\ event \in Statuses
    /\ event \in {"entered", "resolved"} => added
    /\ step \in {"policy", "reselect", "reenter"} => event \notin {"entered", "resolved"}

LEMMA EventsInit == Init => EventsHold
BY DEF Init, EventsHold, Statuses

LEMMA EventsStep == EventsHold /\ [Next]_vars => EventsHold'
<1> SUFFICES ASSUME EventsHold, [Next]_vars
             PROVE  EventsHold'
  OBVIOUS
<1> USE DEF EventsHold, Statuses
<1>1. CASE Look
  BY <1>1 DEF Look, Followed
<1>2. CASE Decide
  BY <1>2 DEF Decide, books
<1>3. CASE Enter
  BY <1>3 DEF Enter, books
<1>4. CASE RemoveOk
  BY <1>4 DEF RemoveOk, books
<1>5. CASE RemoveFails
  BY <1>5 DEF RemoveFails, EndInError, books
<1>6. CASE Account
  BY <1>6 DEF Account, EndInError, books
<1>7. CASE Policy
  BY <1>7 DEF Policy, EndWell
<1>8. CASE Reselect
  BY <1>8 DEF Reselect, CloseEvent, EndWell, EndOutside
<1>9. CASE Reenter
  BY <1>9 DEF Reenter, CloseEvent, EndWell, EndOutside
<1>10. CASE Tick \/ OthersAdd \/ OthersRemove
  BY <1>10 DEF Tick, OthersAdd, OthersRemove, books
<1>11. CASE Stop
  BY <1>11 DEF Stop, books
<1>12. CASE Start
  BY <1>12 DEF Start, books
<1>13. CASE UNCHANGED vars
  BY <1>13 DEF vars, books
<1> QED
  BY <1>1, <1>2, <1>3, <1>4, <1>5, <1>6, <1>7, <1>8, <1>9, <1>10, <1>11, <1>12,
     <1>13 DEF Next, BotStep

(* An event that says "entered", or that was followed up, belongs to a      *)
(* re-entry that put an add on the chain.                                   *)
THEOREM EventsAreTrue == Spec => []EnteredEventsAreTrue
<1>1. EventsHold => EnteredEventsAreTrue
  BY DEF EventsHold, EnteredEventsAreTrue
<1> QED
  BY <1>1, EventsInit, EventsStep, PTL DEF Spec

-----------------------------------------------------------------------------
(* The looks.  From the look that found no position to the entry it leads   *)
(* to, whatever lies on the chain was missed by it or came after it.        *)
LooksHold ==
    /\ layers \in Nat
    /\ step \in {"enter", "reenter"} => seen = "none"
    /\ step \in {"decide", "enter", "reenter"} /\ seen = "none" /\ layers > 0 =>
           blind \/ changed

LEMMA LooksInit == Init => LooksHold
BY DEF Init, LooksHold

LEMMA AddType ==
    ASSUME layers \in Nat, NEW known, Add(known)
    PROVE  layers' \in Nat
BY ConstantsType DEF Add

LEMMA LooksStep == LooksHold /\ [Next]_vars => LooksHold'
<1> SUFFICES ASSUME LooksHold, [Next]_vars
             PROVE  LooksHold'
  OBVIOUS
<1> USE DEF LooksHold
<1>1. CASE Look
  BY <1>1 DEF Look, See
<1>2. CASE Decide
  BY <1>2 DEF Decide, looks
<1>3. CASE Enter
  <2>1. layers' \in Nat
    BY <1>3, AddType DEF Enter, NoAdd
  <2> QED
    BY <1>3, <2>1 DEF Enter
<1>4. CASE RemoveOk
  BY <1>4 DEF RemoveOk
<1>5. CASE RemoveFails
  BY <1>5 DEF RemoveFails, EndInError
<1>6. CASE Account
  BY <1>6 DEF Account, EndInError
<1>7. CASE Policy
  BY <1>7 DEF Policy, EndWell
<1>8. CASE Reselect
  BY <1>8 DEF Reselect, See, CloseEvent, EndWell, EndOutside
<1>9. CASE Reenter
  <2>1. layers' \in Nat
    BY <1>9, AddType DEF Reenter, NoAdd
  <2>2. \E status \in {"entered", "exit_only", "error"} : CloseEvent(status)
    BY <1>9 DEF Reenter
  <2>3. step' = "sleep"
    BY <2>2 DEF CloseEvent, EndWell, EndOutside
  <2> QED
    BY <2>1, <2>3
<1>10. CASE Tick \/ OthersAdd \/ OthersRemove
  BY <1>10 DEF Tick, OthersAdd, OthersRemove, looks
<1>11. CASE Stop
  BY <1>11 DEF Stop
<1>12. CASE Start
  BY <1>12 DEF Start
<1>13. CASE UNCHANGED vars
  BY <1>13 DEF vars, looks
<1> QED
  BY <1>1, <1>2, <1>3, <1>4, <1>5, <1>6, <1>7, <1>8, <1>9, <1>10, <1>11, <1>12,
     <1>13 DEF Next, BotStep

(* The bot puts an entry on top of another only when its last look missed   *)
(* the other, or somebody else put it there after the look.                 *)
THEOREM StacksUnknowingly == Spec => StacksOnlyUnknowingly
<1>1. LooksHold /\ [Next]_vars =>
        [(/\ step \in {"enter", "reenter"} /\ step' = "sleep"
          /\ layers > 0 /\ layers' > layers) => (blind \/ changed)]_vars
  BY DEF LooksHold
<1> QED
  BY <1>1, LooksInit, LooksStep, PTL DEF Spec, StacksOnlyUnknowingly

-----------------------------------------------------------------------------
(* The types.  That of the count of failures is the matter of BreakerHolds; *)
(* here the rest, with the clocks, which stop at what their gates can tell. *)
OldEnough ==
    /\ entryAge \in 0..NightHold
    /\ exitAge \in 0..Cooldown /\ sinceExit \in 0..Cooldown

RestOfType ==
    /\ layers \in 0..MaxLayers
    /\ seen \in {"none", "kept", "astray"}
    /\ OldEnough
    /\ event \in Statuses
    /\ added \in BOOLEAN /\ blind \in BOOLEAN /\ changed \in BOOLEAN

LEMMA OlderType ==
    ASSUME NEW cap \in Nat, NEW age \in 0..cap
    PROVE  Older(age, cap) \in 0..cap
BY DEF Older

LEMMA AddKeepsType ==
    ASSUME RestOfType, NEW known, Add(known) \/ NoAdd
    PROVE  layers' \in 0..MaxLayers /\ OldEnough'
<1>1. CASE Add(known)
  BY <1>1, ConstantsType DEF RestOfType, OldEnough, Add
<1>2. CASE NoAdd
  BY <1>2 DEF RestOfType, OldEnough, NoAdd, timers
<1> QED
  BY <1>1, <1>2

LEMMA CloseKeepsType ==
    ASSUME event \in Statuses, NEW status \in Statuses, CloseEvent(status)
    PROVE  event' \in Statuses
BY DEF CloseEvent, Statuses

LEMMA RestInit == Init => RestOfType
<1> SUFFICES ASSUME Init PROVE RestOfType
  OBVIOUS
<1>1. /\ layers = 0 /\ entryAge = NightHold /\ exitAge = Cooldown
      /\ sinceExit = Cooldown
  BY DEF Init
<1>2. layers \in 0..MaxLayers /\ OldEnough
  BY <1>1, ConstantsType DEF OldEnough
<1>3. event \in Statuses /\ seen \in {"none", "kept", "astray"}
  BY DEF Init, Statuses
<1>4. added \in BOOLEAN /\ blind \in BOOLEAN /\ changed \in BOOLEAN
  BY DEF Init
<1> QED
  BY <1>2, <1>3, <1>4 DEF RestOfType

LEMMA RestStep == RestOfType /\ [Next]_vars => RestOfType'
<1> SUFFICES ASSUME RestOfType, [Next]_vars
             PROVE  RestOfType'
  OBVIOUS
<1> USE ConstantsType DEF RestOfType
<1>1. CASE Look
  BY <1>1 DEF Look, Followed, See, timers, OldEnough, Statuses
<1>2. CASE Decide
  BY <1>2 DEF Decide, timers, books, looks, OldEnough
<1>3. CASE Enter
  BY <1>3, AddKeepsType DEF Enter, books, looks
<1>4. CASE RemoveOk
  BY <1>4 DEF RemoveOk, books, looks, OldEnough
<1>5. CASE RemoveFails
  BY <1>5 DEF RemoveFails, timers, books, looks, OldEnough
<1>6. CASE Account
  BY <1>6 DEF Account, timers, books, looks, OldEnough, Statuses
<1>7. CASE Policy
  BY <1>7 DEF Policy, timers, looks, OldEnough, Statuses
<1>8. CASE Reselect
  <2>1. event' \in Statuses
    BY <1>8, CloseKeepsType DEF Reselect, Statuses
  <2>2. seen' \in {"none", "kept", "astray"} /\ blind' \in BOOLEAN /\ changed' \in BOOLEAN
    BY <1>8 DEF Reselect, See, looks
  <2> QED
    BY <1>8, <2>1, <2>2 DEF Reselect, timers, OldEnough
<1>9. CASE Reenter
  <2>1. /\ Add(TRUE) \/ Add(FALSE) \/ NoAdd
        /\ added' \in {added, TRUE}
        /\ \E status \in {"entered", "exit_only", "error"} : CloseEvent(status)
        /\ seen' = seen /\ blind' = blind /\ changed' = changed
    BY <1>9 DEF Reenter, looks
  <2>2. layers' \in 0..MaxLayers /\ OldEnough'
    BY <2>1, AddKeepsType
  <2>3. event' \in Statuses
    BY <2>1, CloseKeepsType DEF Statuses
  <2> QED
    BY <2>1, <2>2, <2>3
<1>10. CASE Tick
  <2>1. OldEnough'
    BY <1>10, OlderType DEF Tick, OldEnough
  <2> QED
    BY <1>10, <2>1 DEF Tick, books, looks
<1>11. CASE OthersAdd \/ OthersRemove
  <2>1. layers' \in 0..MaxLayers
    BY <1>11 DEF OthersAdd, OthersRemove
  <2>2. changed' \in BOOLEAN /\ added' \in BOOLEAN /\ blind' \in BOOLEAN
    BY <1>11 DEF OthersAdd, OthersRemove, books, looks
  <2>3. OldEnough' /\ event' \in Statuses /\ seen' \in {"none", "kept", "astray"}
    BY <1>11 DEF OthersAdd, OthersRemove, timers, books, looks, OldEnough
  <2> QED
    BY <2>1, <2>2, <2>3
<1>12. CASE Stop
  BY <1>12 DEF Stop, timers, books, looks, OldEnough
<1>13. CASE Start
  <2>1. /\ layers' \in 0..layers /\ entryAge' = NightHold
        /\ exitAge' = Cooldown /\ sinceExit' = Cooldown
    BY <1>13 DEF Start
  <2>2. layers' \in 0..MaxLayers /\ OldEnough'
    BY <2>1 DEF OldEnough
  <2>3. /\ event' \in Statuses /\ seen' \in {"none", "kept", "astray"}
        /\ added' \in BOOLEAN /\ blind' \in BOOLEAN /\ changed' \in BOOLEAN
    BY <1>13 DEF Start, books
  <2> QED
    BY <2>2, <2>3
<1>14. CASE UNCHANGED vars
  BY <1>14 DEF vars, timers, books, looks, OldEnough
<1> QED
  BY <1>1, <1>2, <1>3, <1>4, <1>5, <1>6, <1>7, <1>8, <1>9, <1>10, <1>11, <1>12,
     <1>13, <1>14 DEF Next, BotStep

(* Every variable has its type; in particular the count of failures stops   *)
(* at the limit of the breaker, whatever it is.                             *)
THEOREM CycleTypeCorrect == Spec => []TypeOK
<1>1. RestOfType /\ BreakerHolds => TypeOK
  BY DEF RestOfType, OldEnough, BreakerHolds, TypeOK
<1> QED
  BY <1>1, RestInit, RestStep, BreakerInit, BreakerStep, PTL DEF Spec

-----------------------------------------------------------------------------
(* The cooldown.  The gate reads the bot's own timer; what it is to keep    *)
(* apart are removals.  The two agree because the timer is set in the very  *)
(* step of the removal, before the bookkeeping that may fail, and because a *)
(* process that is gone takes both with it.                                 *)
TimerIsTrue == exitAge = sinceExit

LEMMA TimerInit == Init => TimerIsTrue
BY DEF Init, TimerIsTrue

LEMMA TimerStep == TimerIsTrue /\ [Next]_vars => TimerIsTrue'
<1> SUFFICES ASSUME TimerIsTrue, [Next]_vars
             PROVE  TimerIsTrue'
  OBVIOUS
<1> USE DEF TimerIsTrue
<1>1. CASE Look \/ Decide
  BY <1>1 DEF Look, Decide, timers
<1>2. CASE Enter
  BY <1>2 DEF Enter, Add, NoAdd, timers
<1>3. CASE RemoveOk
  BY <1>3 DEF RemoveOk
<1>4. CASE RemoveFails
  BY <1>4 DEF RemoveFails, timers
<1>5. CASE Account \/ Policy \/ Reselect
  BY <1>5 DEF Account, Policy, Reselect, timers
<1>6. CASE Reenter
  <2>1. Add(TRUE) \/ Add(FALSE) \/ NoAdd
    BY <1>6 DEF Reenter
  <2> QED
    BY <2>1 DEF Add, NoAdd, timers
<1>7. CASE Tick
  BY <1>7 DEF Tick
<1>8. CASE OthersAdd \/ OthersRemove \/ Stop
  BY <1>8 DEF OthersAdd, OthersRemove, Stop, timers
<1>9. CASE Start
  BY <1>9 DEF Start
<1>10. CASE UNCHANGED vars
  BY <1>10 DEF vars, timers
<1> QED
  BY <1>1, <1>2, <1>3, <1>4, <1>5, <1>6, <1>7, <1>8, <1>9, <1>10 DEF Next, BotStep

(* A removal begins only through the gates. *)
LEMMA OnlyDecideExits ==
    ASSUME [Next]_vars, step = "decide", step' = "exit"
    PROVE  exitAge >= Cooldown
<1>1. CASE Decide
  BY <1>1 DEF Decide, GatesOpen
<1>2. CASE Stop \/ Start
  BY <1>2 DEF Stop, Start
<1>3. CASE Look \/ Enter \/ RemoveOk \/ RemoveFails \/ Account \/ Policy \/ Reselect \/ Reenter
  BY <1>3 DEF Look, Enter, RemoveOk, RemoveFails, Account, Policy, Reselect, Reenter
<1>4. CASE Tick \/ OthersAdd \/ OthersRemove \/ UNCHANGED vars
  BY <1>4 DEF Tick, OthersAdd, OthersRemove, vars
<1> QED
  BY <1>1, <1>2, <1>3, <1>4 DEF Next, BotStep

(* A process does not remove again within the cooldown of a removal that    *)
(* succeeded, whatever the cooldown, the failures and the interleaving.     *)
THEOREM RemovalsSpaced == Spec => RemovalsAreSpaced
<1>1. TimerIsTrue /\ [Next]_vars =>
        [step = "decide" /\ step' = "exit" => sinceExit >= Cooldown]_vars
  BY OnlyDecideExits DEF TimerIsTrue
<1> QED
  BY <1>1, TimerInit, TimerStep, PTL DEF Spec, RemovalsAreSpaced
=============================================================================
