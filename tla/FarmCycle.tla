------------------------------ MODULE FarmCycle ------------------------------
(***************************************************************************)
(* The farming loop of one process after the other (FarmBot.execute_cycle, *)
(* _exit_and_reenter and the orchestration modules it calls): look at the  *)
(* position, decide, and enter, or take the position off and enter again,  *)
(* behind the gates that are to keep the bot from churning: the minimum    *)
(* hold, the cooldown and the circuit breaker.  Their timers and counter   *)
(* live in memory and die with the process.                                *)
(*                                                                         *)
(* Time is told in ages, which stop growing once no gate can tell them     *)
(* apart; "never" (the timers start at 0) is as old as can be.             *)
(***************************************************************************)
EXTENDS Integers

CONSTANTS DayHold,     \* _min_hold_seconds
          NightHold,   \* 3600 seconds, before 8 o'clock UTC
          Cooldown,    \* reentry_cooldown_seconds
          MaxFailures, \* _max_exit_failures
          MaxLayers    \* bound: entries that lie on the chain at once

ASSUME CycleAssumption ==
    /\ {DayHold, NightHold, Cooldown} \subseteq Nat /\ DayHold <= NightHold
    /\ {MaxFailures, MaxLayers} \subseteq Nat \ {0}

VARIABLES step,      \* where the cycle is, or "down"
          layers,    \* entries on the chain that were not taken off
          seen,      \* how the cycle sees the position
          entryAge,  \* since _last_entry_time
          exitAge,   \* since _last_exit_time
          failures,  \* _exit_failures
          event,     \* status of the row of reentry_events of the last exit
          added,     \* history: an add of that exit's re-entry is on the chain
          wasted,    \* history: removals that raised since one that did not, as
             \* far as one more than the breaker lets through
          sinceExit, \* history: since a removal of this process succeeded
          blind,     \* history: the last look missed what was on the chain
          changed    \* history: someone else added after the last look

timers  == <<entryAge, exitAge, sinceExit>>
books   == <<event, added>>
looks   == <<seen, blind, changed>>
counts  == <<failures, wasted>>
vars    == <<step, layers, timers, books, looks, counts>>

Steps    == {"sleep", "decide", "enter", "exit", "account", "policy", "reselect",
             "reenter", "down"}
Statuses == {"none", "exiting", "entered", "exit_only", "error", "resolved"}

(* One more, but no more than tells. *)
Older(age, cap) == IF age < cap THEN age + 1 ELSE cap

Init ==
    /\ step = "sleep" /\ layers = 0 /\ seen = "none"
    /\ entryAge = NightHold /\ exitAge = Cooldown /\ sinceExit = Cooldown
    /\ failures = 0 /\ wasted = 0
    /\ event = "none" /\ added = FALSE
    /\ blind = FALSE /\ changed = FALSE

-----------------------------------------------------------------------------
(* Time passes, in the middle of everything.                                *)
Tick ==
    /\ entryAge < NightHold \/ exitAge < Cooldown
    /\ entryAge' = Older(entryAge, NightHold)
    /\ exitAge' = Older(exitAge, Cooldown)
    /\ sinceExit' = Older(sinceExit, Cooldown)
    /\ UNCHANGED <<step, layers, books, looks, counts>>

(* The operator adds or removes liquidity with the moe command, or an add   *)
(* of an earlier cycle, long given up, is mined.                            *)
OthersAdd ==
    /\ layers < MaxLayers
    /\ layers' = layers + 1
    /\ changed' = TRUE
    /\ UNCHANGED <<step, seen, blind, timers, books, counts>>

OthersRemove ==
    /\ layers > 0
    /\ layers' = 0
    /\ UNCHANGED <<step, timers, books, looks, counts>>

-----------------------------------------------------------------------------
(* What get_position and the strategy engine make of the chain: no position *)
(* when there is none, but also when it cannot be found or, in a cycle,     *)
(* when its value is small or could not be read; and otherwise one to keep  *)
(* or one to leave ("astray": beyond the tolerance, at the edge, too wide). *)
See ==
    /\ seen' \in {"none"} \cup (IF layers > 0 THEN {"kept", "astray"} ELSE {})
    /\ blind' = (layers > 0 /\ seen' = "none")
    /\ changed' = FALSE

(* finalize_pending_reentries: the follow-up of the last re-entry. *)
Followed == IF event = "entered" THEN "resolved" ELSE event

(* CyclePreparer.prepare: the look and the follow-up.                       *)
(* A cycle that cannot look ends there and changes nothing.                 *)
Look ==
    /\ step = "sleep"
    /\ See
    /\ step' = "decide"
    /\ event' = Followed
    /\ UNCHANGED <<layers, added, timers, counts>>

(* A breaker that trips one late: for the check of the properties.          *)
GatesOpenLate(hold) ==
    /\ entryAge >= hold
    /\ failures <= MaxFailures
    /\ exitAge >= Cooldown

(* The gates of an exit: the hold, by day or by night, the circuit breaker  *)
(* and the cooldown.                                                        *)
GatesOpen(hold) ==
    /\ entryAge >= hold
    /\ failures < MaxFailures
    /\ exitAge >= Cooldown

(* Without a position the engine may wait or enter, with a position to keep *)
(* the cycle holds (top-ups are disabled), and one to leave is left if the  *)
(* gates are open.                                                          *)
Decide ==
    /\ step = "decide"
    /\ \/ seen = "none" /\ step' \in {"sleep", "enter"}
       \/ seen = "kept" /\ step' = "sleep"
       \/ /\ seen = "astray"
          /\ \E hold \in {DayHold, NightHold} :
                step' = IF GatesOpen(hold) THEN "exit" ELSE "sleep"
    /\ UNCHANGED <<layers, timers, books, looks, counts>>

(* Adds of one entry, more than one if an attempt that was given up is      *)
(* mined too; _last_entry_time is set last of all.                          *)
Add(known) ==
    /\ layers' \in (layers + 1)..MaxLayers
    /\ entryAge' = IF known THEN 0 ELSE entryAge
    /\ UNCHANGED <<exitAge, sinceExit>>

NoAdd == UNCHANGED <<layers, timers>>

(* The executor's entry, with all its attempts (EntryRetry): an add that    *)
(* succeeded, one that the bot does not know of, or none.                   *)
Enter ==
    /\ step = "enter"
    /\ Add(TRUE) \/ Add(FALSE) \/ NoAdd
    /\ step' = "sleep"
    /\ UNCHANGED <<books, looks, counts>>

-----------------------------------------------------------------------------
(* The call ends as an error, or as anything else.                          *)
EndInError == step' = "sleep" /\ failures' = failures + 1
EndWell    == step' = "sleep" /\ failures' = 0

(* An exception of the last bookkeeping reaches execute_cycle, which counts *)
(* nothing.                                                                 *)
EndOutside == step' = "sleep" /\ UNCHANGED failures

(* An exit whose time nobody keeps: for the check of the properties.        *)
RemoveUntimed ==
    /\ step = "exit"
    /\ layers > 0 /\ layers' \in 0..layers
    /\ sinceExit' = 0
    /\ wasted' = 0
    /\ step' = "account"
    /\ UNCHANGED <<entryAge, exitAge, failures, books, looks>>

(* lp.remove_position returns: what it found is off the chain; entries it   *)
(* did not see stay, and all of them if none would yield a thing.           *)
(* _last_exit_time is set at once.                                          *)
RemoveOk ==
    /\ step = "exit"
    /\ layers > 0 /\ layers' \in 0..layers
    /\ exitAge' = 0 /\ sinceExit' = 0
    /\ wasted' = 0
    /\ step' = "account"
    /\ UNCHANGED <<entryAge, failures, books, looks>>

(* A removal given up that nobody counts: for the check of the properties.  *)
RemoveUncounted ==
    /\ step = "exit"
    /\ layers' \in 0..layers
    /\ wasted' = Older(wasted, MaxFailures + 1)
    /\ EndOutside
    /\ UNCHANGED <<timers, books, looks>>

(* It raises, with nothing removed, or some, or all and the receipt lost.   *)
RemoveFails ==
    /\ step = "exit"
    /\ layers' \in 0..layers
    /\ wasted' = Older(wasted, MaxFailures + 1)
    /\ EndInError
    /\ UNCHANGED <<timers, books, looks>>

(* The balances after the exit and the row of the re-entry event stand in   *)
(* the same try as the removal: what they raise counts as a failed removal. *)
Account ==
    /\ step = "account"
    /\ \/ /\ event' = "exiting" /\ added' = FALSE
          /\ step' = "policy"
          /\ UNCHANGED failures
       \/ /\ EndInError
          /\ UNCHANGED books
    /\ UNCHANGED <<layers, timers, looks, wasted>>

(* ReentryCoordinator: the event is closed with a status; if the database   *)
(* refuses, finalize_exception closes it as an error; if it refuses again,  *)
(* the event stays as it is and the exception leaves the call.              *)
CloseEvent(status) ==
    \/ event' = status /\ EndWell
    \/ event' = "error" /\ EndWell
    \/ event' = event /\ EndOutside

(* The inventory policy may advise against entering again; but if closing   *)
(* the event then fails, that is taken for a failure of the policy, and the *)
(* call goes on.                                                            *)
Policy ==
    /\ step = "policy"
    /\ \/ event' = "exit_only" /\ EndWell
       \/ step' = "reselect" /\ UNCHANGED <<event, failures>>
    /\ UNCHANGED <<layers, added, timers, looks, wasted>>

(* A re-entry that trusts the removal: for the check of the properties.     *)
ReselectUnseeing ==
    /\ step = "reselect"
    /\ step' = "reenter"
    /\ blind' = FALSE /\ changed' = FALSE /\ seen' = "none"
    /\ UNCHANGED <<event, counts, layers, added, timers>>

(* A fresh look and strategy.  Only without a position is there an entry.   *)
Reselect ==
    /\ step = "reselect"
    /\ \/ /\ See
          /\ \/ seen' = "none" /\ step' = "reenter" /\ UNCHANGED <<event, failures>>
             \/ CloseEvent("exit_only")
       \/ /\ UNCHANGED looks
          /\ CloseEvent("error")
    /\ UNCHANGED <<layers, added, timers, wasted>>

(* An outcome taken for an entry whatever it is: for the check of the       *)
(* properties.                                                              *)
ReenterHopefully ==
    /\ step = "reenter"
    /\ \/ Add(TRUE) /\ added' = TRUE
       \/ NoAdd /\ UNCHANGED added
    /\ event' = "entered" /\ EndWell
    /\ UNCHANGED <<looks, wasted>>

(* The entry and finalize_create_result: "entered" when the executor says   *)
(* so, "exit_only" when it skipped, "error" when it failed; the last two    *)
(* also when it has lost sight of an add.                                   *)
Reenter ==
    /\ step = "reenter"
    /\ \/ Add(TRUE) /\ added' = TRUE /\ CloseEvent("entered")
       \/ /\ \/ Add(FALSE) /\ added' = TRUE
             \/ NoAdd /\ UNCHANGED added
          /\ \E status \in {"exit_only", "error"} : CloseEvent(status)
    /\ UNCHANGED <<looks, wasted>>

(* The process ends anywhere. *)
Stop ==
    /\ step # "down"
    /\ step' = "down"
    /\ UNCHANGED <<layers, timers, books, looks, counts>>

(* A new process: no timer, no count; the reconciliation of the startup may *)
(* take off some or all of what is on the chain (PositionLifecycle).        *)
Start ==
    /\ step = "down"
    /\ step' = "sleep"
    /\ layers' \in 0..layers
    /\ entryAge' = NightHold /\ exitAge' = Cooldown /\ sinceExit' = Cooldown
    /\ failures' = 0 /\ wasted' = 0
    /\ seen' = "none" /\ blind' = FALSE /\ changed' = FALSE
    /\ UNCHANGED books

BotStep == \/ Look \/ Decide \/ Enter
           \/ RemoveOk \/ RemoveFails \/ Account
           \/ Policy \/ Reselect \/ Reenter

Next == BotStep \/ Tick \/ OthersAdd \/ OthersRemove \/ Stop \/ Start

Spec == Init /\ [][Next]_vars

(* The loop catches everything and always sleeps and goes on; the reads of  *)
(* a cycle succeed sooner or later; time passes.                            *)
FairSpec == Spec /\ WF_vars(BotStep) /\ WF_vars(Tick)

-----------------------------------------------------------------------------
(* Every variable has its type. *)
TypeOK ==
    /\ step \in Steps
    /\ layers \in 0..MaxLayers
    /\ seen \in {"none", "kept", "astray"}
    /\ entryAge \in 0..NightHold
    /\ {exitAge, sinceExit} \subseteq 0..Cooldown
    /\ failures \in 0..MaxFailures
    /\ wasted \in 0..(MaxFailures + 1)
    /\ event \in Statuses
    /\ {added, blind, changed} \subseteq BOOLEAN

(* No failed removal escapes the breaker: it has counted at least those     *)
(* that failed in a row, and so there are never more of them than it lets   *)
(* through.                                                                 *)
FailuresAreCounted == wasted <= failures /\ failures <= MaxFailures

(* A process does not remove again within the cooldown of a removal that    *)
(* succeeded, whatever happened to the bookkeeping of it.                   *)
RemovalsAreSpaced ==
    [][step = "decide" /\ step' = "exit" => sinceExit >= Cooldown]_vars

(* The bot puts an entry on top of another only when its last look missed   *)
(* the other, or somebody else put it there after the look.                 *)
StacksOnlyUnknowingly ==
    [][(/\ step \in {"enter", "reenter"} /\ step' = "sleep"
        /\ layers > 0 /\ layers' > layers) => (blind \/ changed)]_vars

(* An event of the analytics says "entered" (and is followed up) only if    *)
(* the re-entry it belongs to did put an add on the chain.                  *)
EnteredEventsAreTrue == event \in {"entered", "resolved"} => added

(* A position the bot wants to leave, sees as such in every cycle and never *)
(* gets off the chain ends with the breaker tripped: it is not tried for    *)
(* ever, nor held for ever without a word.                                  *)
Stuck == /\ step \notin {"down", "account"}
         /\ step = "decide" => seen = "astray"

StuckTripsBreaker == <>[]Stuck => <>[](failures = MaxFailures)

(* "Reentry cooldown: 15 min minimum between exit and re-entry".            *)
CooldownBeforeReentry ==
    [][step = "reenter" /\ entryAge' = 0 /\ layers' > layers => exitAge >= Cooldown]_vars
=============================================================================
