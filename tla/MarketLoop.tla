----------------------------- MODULE MarketLoop -----------------------------
(***************************************************************************)
(* The farm cycle with the market in it: the snapshot of the analytics and *)
(* its search for changes from outside, the look, the strategy engine's    *)
(* answer, the exit, the second look and the entry of as many bins as the  *)
(* channel asks for around the active bin of that moment.  The price and   *)
(* the weather go their own ways between any two steps, the owner's other  *)
(* tools while the bot sleeps.  The gates and failures of FarmCycle are    *)
(* choices here, and so is the worth of a position, by which a residue     *)
(* counts as none.  A position is whole between its ends: the bins between *)
(* a residue and an entry beside it are counted as held.                   *)
(***************************************************************************)
EXTENDS StrategyEngine

CONSTANTS ActiveBins, Weathers,
          Upside,       \* position_upside_pct, percent
          OwnersRange,  \* bound: where the owner adds; and he acts only while the bot sleeps
          ResidueBins,  \* bound: the largest position that counts as none
          MaxMissed,    \* bound: cycles in a row whose snapshot fails
          Poll,         \* --poll-interval-seconds, and
          Window        \* the 300 seconds in which a change is expected, in the same unit

ASSUME LoopAssumption ==
  /\ {Poll, Window} \subseteq Nat \ {0} /\ Upside \in 0..100 /\ {ResidueBins, MaxMissed} \subseteq Nat
  /\ ActiveBins \subseteq Int /\ OwnersRange \in [lo : Int, hi : Int]
  /\ \A w \in Weathers : {w.width, w.dayAtr} \subseteq Nat

VARIABLES active, weather,
          pos,          \* the position on the chain
          step,         \* "sleep" "decide" "exit" "reselect" "enter"
          seen,         \* the look of this cycle: {} or {[pos, active]}
          plan,         \* the entry to come: {} or {[strategy, bins]}
          reg,          \* the active entry of either type in the registry
          prev,         \* the last snapshot: {} or {[bins, held]}
          missed,       \* snapshots that failed since
          sinceOp,      \* since the last recorded operation, up to Window
          flow,         \* what the snapshot of this cycle took for a change from outside
          fresh,        \* history: the market is as it was when plan, or pos, was chosen
          causes        \* history: what changed pos since the last snapshot: the "owner",
                        \* the bot "silently", without an operation, or by a recorded "entry"

market == <<active, weather>>
books == <<reg, prev, missed, sinceOp, flow>>
history == <<fresh, causes>>
vars == <<market, pos, step, seen, plan, books, history>>

\* What the bot makes of each weather
View == [w \in Weathers |-> MarketState(w)]

Init ==
  /\ active \in ActiveBins /\ weather \in Weathers
  /\ pos = NoPosition /\ step = "sleep"
  /\ seen = {} /\ plan = {}
  /\ reg = [narrow |-> NoPosition, wide |-> NoPosition]
  /\ prev = {} /\ missed = 0 /\ sinceOp = Window /\ flow = "none"
  /\ fresh = FALSE /\ causes = {}

-----------------------------------------------------------------------------
PriceMoves == active' \in ActiveBins \ {active} /\ UNCHANGED weather
WeatherTurns == weather' \in Weathers \ {weather} /\ UNCHANGED active

Market == /\ PriceMoves \/ WeatherTurns
          /\ fresh' = FALSE
          /\ UNCHANGED <<pos, step, seen, plan, books, causes>>

\* The web page of the exchange, or the moe command: the bot's registry does not see it.
Owner ==
  /\ step = "sleep"
  /\ pos' = IF pos = NoPosition THEN OwnersRange ELSE NoPosition
  /\ causes' = causes \cup {"owner"} /\ fresh' = FALSE
  /\ UNCHANGED <<market, step, seen, plan, books>>

-----------------------------------------------------------------------------
Hull(p, q) == IF p = NoPosition THEN q ELSE [lo |-> Smaller(p.lo, q.lo), hi |-> Larger(p.hi, q.hi)]
Overlap(p, q) == p.lo <= q.hi /\ q.lo <= p.hi

\* resolve_snapshot_position_ranges: the chain is asked only for the bins of an
\* entry whose type is clear; the snapshot keeps the larger of both.
Clear(strategy) ==
  IF Override # "none" THEN strategy = Override
  ELSE \A t \in DOMAIN reg : (reg[t] # NoPosition) = (t = strategy)
SnapshotBins ==
  LET bins(t) == IF pos # NoPosition /\ Clear(t) THEN Size(pos) ELSE Size(reg[t])
  IN  Larger(bins("narrow"), bins("wide"))

\* record_snapshot.  The worth is the budget's, and none where that could not read it.
Snapshot(worth) == [bins |-> SnapshotBins, held |-> pos # NoPosition /\ worth # "unread"]

\* Between two positions the value may have changed by a tenth or not.
Suspected(before, now) ==
  IF Magnitude(now.bins - before.bins) <= 2 THEN {"none"}
  ELSE CASE now.held /\ ~before.held -> {"external_add"}
         [] ~now.held /\ before.held -> {"external_remove"}
         [] now.held /\ before.held -> {"none", "external_add", "external_remove"}
         [] OTHER -> {"none"}

\* Broken on purpose: a change is never expected.
FlowsUnexpecting(age, now) == {"none"} \cup UNION {Suspected(before, now) : before \in prev}

\* detect_external_changes: more than two bins and more than a tenth of the value differ
\* from the last snapshot, and no operation was recorded within the window.
Flows(age, now) ==
  IF prev = {} \/ age < Window THEN {"none"}
  ELSE UNION {Suspected(before, now) : before \in prev}

AnIntervalLater == Smaller(Window, sinceOp + Poll)

\* record_analytics_snapshot: it may fail before the snapshot is recorded, or between
\* that and the search.  The flow is an operation, but not of the bot.
RecordSnapshot(worth) ==
  \/ /\ flow' \in {"none"} \cup Flows(sinceOp', Snapshot(worth))
     /\ prev' = {Snapshot(worth)} /\ missed' = 0 /\ causes' = {}
  \/ /\ missed < MaxMissed /\ missed' = missed + 1
     /\ flow' = "none" /\ UNCHANGED <<prev, causes>>

\* normalize_position_for_strategy: a position that is "small", or whose worth could
\* not be read, is none for the strategy; the snapshot looks again for itself.
Normalized(worth) == IF worth = "counted" THEN pos ELSE NoPosition

\* CyclePreparer.prepare, a poll interval later
Prepare ==
  /\ step = "sleep"
  /\ sinceOp' = AnIntervalLater
  /\ \E worth \in {"counted", "small", "unread"} :
       /\ worth # "counted" => pos # NoPosition /\ Size(pos) <= ResidueBins
       /\ seen' = {[pos |-> Normalized(worth), active |-> active]}
       /\ RecordSnapshot(worth)
  /\ step' = "decide"
  /\ UNCHANGED <<market, pos, plan, reg, fresh>>

\* A cycle that raises before its snapshot, one that takes longer than the interval,
\* or a bot that is stopped for a while
LosesTime ==
  /\ step = "sleep"
  /\ sinceOp' = AnIntervalLater
  /\ UNCHANGED <<market, pos, step, seen, plan, reg, prev, missed, flow, history>>

\* continuous(): the bot sleeps, whatever the cycle came to
Sleep == step' = "sleep"

\* record_operation
RecordOperation == sinceOp' = 0

\* Nothing is entered when the channel is too wide for a narrow entry; an entry upon a
\* residue is not fresh.
PlanEntry(strategy) ==
  LET bins == EntryBins(View[weather], strategy) IN
  /\ plan' = {[strategy |-> strategy, bins |-> bins]} \ {[strategy |-> strategy, bins |-> 0]}
  /\ fresh' = (bins > 0 /\ pos = NoPosition)
  /\ step' = IF bins > 0 THEN "enter" ELSE "sleep"
  /\ UNCHANGED causes

Answer(p, at) == SelectStrategy(p, at, View[weather])

\* CyclePlanner.plan, LegacyStrategyProfile.build_cycle_intent and the gates
Decide ==
  /\ step = "decide"
  /\ \E look \in seen : LET answer == Answer(look.pos, look.active) IN
       \/ answer = "hold" /\ Sleep /\ UNCHANGED <<plan, history>>
       \/ answer = "exit_and_reenter" /\ step' \in {"exit", "sleep"} /\ UNCHANGED <<plan, history>>
       \/ answer \in {"narrow", "wide"} /\ PlanEntry(answer)
  /\ seen' = {} /\ flow' = "none"
  /\ UNCHANGED <<market, pos, reg, prev, missed, sinceOp>>

\* The removal, which records no operation; the policy may swap, which is one.
\* The call may end between any two of these.
Exit ==
  /\ step = "exit"
  /\ \/ /\ pos' = NoPosition /\ fresh' = FALSE /\ causes' = causes \cup {"silently"}
        /\ reg' = [t \in DOMAIN reg |-> IF Overlap(reg[t], pos) THEN NoPosition ELSE reg[t]]
        /\ RecordOperation \/ UNCHANGED sinceOp
        /\ step' \in {"reselect", "sleep"}
     \/ Sleep /\ UNCHANGED <<pos, reg, fresh, causes, sinceOp>>
  /\ UNCHANGED <<market, seen, plan, prev, missed, flow>>

\* A fresh look; a narrow entry is made wide, whoever asked for it.
Reselect ==
  /\ step = "reselect"
  /\ LET answer == Answer(pos, active)
     IN  IF answer \in {"narrow", "wide"} THEN PlanEntry("wide") ELSE Sleep /\ UNCHANGED <<plan, history>>
  /\ UNCHANGED <<market, pos, seen, books>>

\* The add around the active bin of that moment, upon a residue if one lies there.  Its
\* operation may not be recorded; lost adds and registrations are PositionLifecycle's subject.
Enter ==
  /\ step = "enter"
  /\ \/ /\ \E p \in plan :
             LET right == active + RightBins(p.bins, Upside)
                 range == [lo |-> right + 1 - p.bins, hi |-> right]
             IN  /\ pos' = Hull(pos, range)
                 /\ reg' = [reg EXCEPT ![p.strategy] = Hull(@, range)]
        /\ \/ RecordOperation /\ causes' = causes \cup {"entry"}
           \/ UNCHANGED sinceOp /\ causes' = causes \cup {"silently"}
        /\ UNCHANGED fresh
     \/ fresh' = FALSE /\ UNCHANGED <<pos, reg, sinceOp, causes>>
  /\ plan' = {}
  /\ Sleep
  /\ UNCHANGED <<market, seen, prev, missed, flow>>

Bot == Prepare \/ Decide \/ Exit \/ Reselect \/ Enter
Next == Bot \/ LosesTime \/ Market \/ Owner

Spec == Init /\ [][Next]_vars

\* The loop goes on whatever happens, and not every cycle fails; the gates open, and a
\* removal succeeds, now and then.
FairSpec == /\ Spec /\ WF_vars(Bot)
            /\ SF_vars(Decide /\ step' = "exit")
            /\ SF_vars(Exit /\ pos' = NoPosition)

-----------------------------------------------------------------------------
(* The bot does not undo its own entries: as long as the weather it sized   *)
(* the entry by and the active bin it placed it around stay, the engine     *)
(* holds the position (the bins of an entry and the fitness of a position   *)
(* are computed along two different paths).                                 *)
FreshEntryIsHeld ==
  fresh /\ pos # NoPosition => Answer(pos, active) = "hold"

(* Whatever the weather, a position is not left farther from the price than *)
(* oor_tolerance_cap_bins for good, unless it is never looked at again as   *)
(* one: it is a residue, or its worth cannot be read any more.              *)
NeverStranded ==
  \/ []<>(pos = NoPosition \/ Drift(pos, active) <= OorCap)
  \/ <>[](\A look \in seen : look.pos = NoPosition)

Searched == step = "sleep" /\ step' = "decide"

(* An entry the bot recorded is taken for the owner's deposit only when the *)
(* first snapshot after it comes as late as the 300 seconds; whatever else  *)
(* is suspected, the owner or the bot without a record has changed.  (The   *)
(* default interval is these 300 seconds: there each snapshot is so late.)  *)
RecordedEntriesAreNotFlows ==
  [][Searched /\ flow' # "none" =>
       \/ causes \cap {"owner", "silently"} # {}
       \/ "entry" \in causes /\ sinceOp' >= Window]_vars

(* detect_external_changes: "Detect if LP was added/removed externally (not *)
(* by the bot)."                                                            *)
OwnOperationsAreNotFlows ==
  [][Searched /\ flow' # "none" => "owner" \in causes]_vars

(* The same of the entries on record: what the default interval breaks.     *)
EntriesStayTheBots ==
  [][Searched /\ flow' # "none" => causes \cap {"owner", "silently"} # {}]_vars

(* _get_default_analysis: "Return safe default analysis when calculation    *)
(* fails."  Want of candles is no reason to leave a position in range.      *)
OutageExitsNothing ==
  [][step = "decide" /\ step' = "exit" /\ ~weather.channel
       => \A look \in seen : ~InRange(look.pos, look.active)]_vars
=============================================================================
