# Verification of the Moe Mantle LP bot

TLA+ models of the bot in `src/src/moe_mantle_bot/`, the TLC runs that check
them on small instances, and TLAPS proofs of what matters most for every value
of the constants. File names below are relative to `src/src/moe_mantle_bot/`
unless they say otherwise.

The bot keeps one concentrated-liquidity position ("bins" of a Liquidity Book
pool on Mantle) around the price. A loop of one process (`FarmBot`) looks at the
position, and enters, holds, or takes it off and enters again. A JSON file says
which bins belong to it; a command line (`moe`) works on the same wallet and
the same file; the chain does what it likes with what was sent.

`PROJECT.json` lists the components, the runs, the mutants (for every checked
property a plausible bug that breaks it), the source lines behind every
definition, the findings, the hazards and the theorems.

## 1. Inventory

| component | state | operations | talks to |
|---|---|---|---|
| position registry, `_lp_registry.py` | `lp_registry.json`, its backup, the copy of each process | load, save, add (create or merge), remove (mark as exited), find by bins | LPService calls it; two processes share the file |
| position discovery, `lp_service.py` | none: balances of the chain | search in growing windows around the active bin, widening, probe of a start | the pool contract |
| position lifecycle, `lp_service.py`, `FarmBot.__init__` | liquidity on the chain, the registry | create, register, remove in chunks, deregister, reconcile, cleanup of a start | registry, discovery, transaction sender, the market moving the active bin |
| entry with retries, `farm_bot.py:1551` | attempt, operation record | estimate, compose, send, register, record, retry or give up | transaction sender, RPC rotation, analytics |
| transaction sender, `tx_sender.py` | none | build with nonce and gas, send, wait for the receipt | the endpoint |
| farm cycle and re-entry, `farm_bot.py`, `orchestration/`, `execution/` | timers of hold and cooldown, count of failed exits, status of the re-entry event | look, decide, gates, exit, account, policy, fresh look, re-enter, close the event | all of the above, analytics |
| strategy engine, profiles, `strategies/engine.py`, `legacy_profile.py` | none (functions of market and position) | wait, enter narrow or wide, hold, exit | called by the cycle |
| re-entry inventory policy, `strategies/reentry_policy.py` | times of the last buy and sell | mode, target, guards, capped swap | called between exit and re-entry; the gate shares its guards |
| distributions and shapes, `lp_service.py`, `lp_shapes.py` | none | candidate allocations over bins, weights, choice, shares | called by create_position |
| balances, budget, rebalancing, `balance_manager.py`, `farm_bot.py` | balances of the wallet | guard of the native balance, plan, wrap, unwrap, swap, budget, allocation | pool, wallet, cycle, policy |
| MNT accumulation, `farm_bot.py:1034` | held-back amount and its average price | hold back, release | a ledger nobody reads |
| RPC client, `rpc_client.py` | current endpoint, set of failed ones | call with rotation | everything that reads or sends |
| analytics, `analytics.py` | SQLite tables | record operation, snapshot, re-entry event, external change | cycle, entry, reports |
| market analysis, `quant/` | caches of candles | indicators, channel, regime, bins of a range | exchange, engine |
| command line, `command_cli.py`, `cli.py` | opens the registry anew | `moe lp add`, `moe lp remove`, swaps, reports | LPService, balance manager |
| backtest, notifications, reports, configuration, wallets | – | – | – |

Interaction is by call inside a process, by the file between processes, and by
transactions and reads between the bot and the chain. Only the cycle awaits;
there is one task per process, so the concurrency that matters is with the
chain (late, lost, repeated or reverted transactions; an active bin that moves
between a read and the mining), with the operator (`moe` beside the bot) and
with the end of the process at any point.

What is hard, and what must hold in spite of it:

- **registry**: a save empties the file before it writes it; one that fails
  earlier leaves the old file and one that fails later a torn one; another
  process saves an old copy; merges must find the one active entry. At most one
  active entry per type in every copy; ranges that cover what they hold; a
  history that is never rewritten.
- **discovery**: a window is trusted on the evidence of its two ends. A
  position without holes in reach is found whole.
- **lifecycle**: registration and deregistration follow the chain with failures
  and stops in between, the plan of a removal ages while it is executed, and adds
  and removals the bot has given up are mined all the same. What
  the bot sees it never forgets; an entry stands for liquidity unless a
  failure left it behind.
- **entry**: a receipt that never comes is not a failure of the add, but the
  loop treats it as one; a look that fails is not an empty wallet, but the next
  cycle takes it for one. The books never run ahead of the chain; a double add
  has a cause.
- **cycle**: gates and a breaker against churning, bookkeeping that fails
  halfway, events that are closed twice or not at all. Failures are counted,
  removals are spaced, a stuck position ends with the breaker, no second
  position on one that was seen.
- **RPC client**: a list of failed endpoints that must not become everything,
  and a rotation that must reach an endpoint that is up.
- **distributions**: shares are rounded, the active bin moves between the plan
  and the call, unused amounts are zeroed only once. The router gets nothing it
  must refuse; what it is given is what was planned.
- **policy, gate, balances**: reads, plans and transactions lie apart and the
  price moves between them; two places swap under shared guards, and one of them
  may override its own. Swaps are funded, within their caps, not undone at a
  loss by each other; an entry leaves what the next transaction needs.
- **engine**: the bins of an entry and the fitness of a position are computed
  along different paths from the same market; the tolerance of drift stretches
  with the channel. What was just entered is kept; nothing is out of range for
  good.
- **analytics**: what the bot did and what its owner did are told apart by
  comparing snapshots, which may fail or come late.

## 2. Modules

| module | models | composed from |
|---|---|---|
| `PositionBook` | abstract: what the registry promises | – |
| `LPRegistry` | `_lp_registry.py` and its callers in `lp_service.py`, in several processes | – |
| `RegistryBook` | refinement of `LPRegistry` with one process to `PositionBook` | `LPRegistry`, `PositionBook` |
| `BinDiscovery` | `_discover_bins_near_active`, `discover_onchain_bins` as operators | – |
| `PositionLifecycle` | create, register, remove, deregister, start, against the chain | `BinDiscovery` |
| `EntryRetry` | `_create_position_with_retry`, `create_position`, `TxSender.send`, mempool and chain | – |
| `FarmCycle` | `execute_cycle`, `_exit_and_reenter`, the coordinator of re-entries | abstracts `EntryRetry` and `PositionLifecycle` to their outcomes |
| `BinRange`, `Distribution` | the range of an add, candidates, shapes, choice, shares, as operators | `Distribution` extends `BinRange` |
| `AddLiquidity` | `create_position` from the amounts to the router | `Distribution` |
| `AddOfPosition` | refinement of `AddLiquidity` to the add of `PositionLifecycle` | `AddLiquidity`, `BinDiscovery`, `PositionLifecycle` |
| `Balances`, `InventoryPolicy` | `plan_rebalance`, `get_capital_budget`, `calculate_lp_allocation`, the decisions and guards of `ReentryPolicy`, as operators | `InventoryPolicy` extends `Balances` |
| `Capital` | the wallet through guard, exit, policy, gate, budget and add | `InventoryPolicy` |
| `MarketView`, `StrategyEngine` | channel, regime and bins out of what the candles show; `select_strategy` | `StrategyEngine` extends `MarketView`, `BinRange` |
| `MarketLoop` | the cycle with market, owner, engine, snapshots and recorded operations | `StrategyEngine`; abstracts `FarmCycle` to its outcomes |
| `RpcRotation` | `rpc_client.py`: rotation, `call_with_retry`, the endpoint of the contracts | – |
| `LPRegistryProofs` (with `RegistryBook`), `PositionLifecycleProofs` (with the search of `BinDiscovery`), `AddLiquidityProofs` (with `BinRange`, `Distribution` and `AddOfPosition`), `EntryRetryProofs`, `CapitalProofs` (with `Balances` and `InventoryPolicy`), `FarmCycleProofs`, `RpcRotationProofs`, `MarketLoopProofs` (with the engine) | theorems about the module of that name | each extends its module |
| `MC*` | instances for TLC | |

### LPRegistry

`file` and `backup` are the two files (`absent`, `foreign` for another wallet's,
`torn`, `ok`), `mem[p]` the `positions` of process `p`, `saving` the processes
between `open(file, "w")` and the end of `json.dump`, `todo[p]` the entries the
loop of `_deregister_positions` or `reconcile` still has to mark. `StartSave` /
`FinishSave` / `FailSave` are the two halves of `save` and its failure after the
file was emptied: the step between them is where a crash or another process
comes in. `SaveFailsEarly` is the failure before that, in the copy to the backup
or in `open`: the old file stays, memory keeps the change, and the callers
swallow the exception. `unsaved` are the processes to which that has happened
since their last save; it guards nothing. `LoadFails` is a constructor that
raises because the replacement of a bad file cannot be begun. That a good file
cannot be read for a moment is not modelled. An entry keeps its amounts under
integer keys (`ints`) when created or loaded and under string keys (`strs`) when
merged into; `Reread` is what `json.dump` and `json.load` make of the two.
Initial states: no file, or another wallet's. Two writers of one file may
interleave their text, so `FinishSave` may leave a torn file when another
process finished first.

The abstract `PositionBook` has a book of open ranges, the stored copy of it, and
a restart that goes back to the copy. An operation may lose the copy, and it
need not reach it: what a restart finds is the book of the last save that ended,
or nothing.

### BinDiscovery and PositionLifecycle

`real` are bins whose liquidity can be burnt, `dust` bins with a residue whose burn
would yield nothing: the search sees both, `get_position` reports the first and
may report the second. `Move` is
the market; `SendAdd` … `Register` the way of an add, with `AddLost`/`LateAdd`
for one the bot stopped waiting for; `StartRemove`, `RemoveChunk`,
`RemoveFails`, `Deregister` a removal, with `LateBurn` for a chunk the bot gave
up waiting for (`late`), which is mined if the wallet still has what it burns.
`remove_position` is shown the bins above the dust threshold and burns those of
which a burn yields something (`Visible`, with any of the `Scraps` in the plan
but not in what is left to burn); `Stop`, `Boot`, `Reconcile`, cleanup a
restart. `reg[t]` is the set of bins of the active entry of type `t`. `grown`
are bins that got tokens after the removal had read their amounts: burning what
was read leaves the rest. `taken` are bins of the plan that a late chunk has
burnt. `excused` names the types whose entry some failure has left behind, and
is only read by the property.

### EntryRetry

`step`, `attempt`, `err` are the control of the retry loop. The sender takes its
nonce from an endpoint that may or may not know of earlier pending
transactions, so a retry may replace the lost attempt or come after it. `Mine`
runs the transaction whose nonce is next, with success or revert; `Drop`
forgets one. The exceptions are told apart exactly as the `except` branch does:
a fill too small, the sender's (a native balance too low among them), and
others. `doubts` are the attempts after which the bot does not know, or does not
keep, what became of its add. `NextCall` has no guard on the chain: a later cycle
enters again also when its look failed or took the position for dust (a failed
read in `get_capital_budget` is one of the ways), and `blind` counts the calls
that began so.

### FarmCycle

`step` walks through `execute_cycle` and `_exit_and_reenter`. Timers are ages
that stop growing once no gate can tell them apart ("never" is as old as can
be, since the code's timers start at 0). `layers` counts the entries lying on
the chain. `See` is what `get_position` and the engine make of the chain, which
may miss what is there (a read that failed counts as no position). Results of
the strategy engine and of the inventory policy are nondeterministic.
`wasted`, `sinceExit`, `blind`, `changed`, `added` are history and guard nothing.

### Distribution and AddLiquidity

A bin is its distance from the active bin; allocations and shares are functions
over the range. A candidate has liquidity `l` in every bin, and for the active
bin one token, the other, or what is left of both (`Uniform`); `OneSidedY` is
added when the value is nearly all in Y. `Best` is the code's `max` with its
preference for the mode of before. Amounts are whole units where the code has
28 digits, so shares differ from the amounts they stand for by less than a unit
per bin; `SharesFollowPlan` allows for that and nothing else. `AddLiquidity` is
the way of one add: `Ask` (cap of the native value), `PlanAdd` (distribution,
fill, zeroing), `LastLook` (the recompute when the active bin has moved), and
`PlaceAdd` or `RefuseAdd` for the router. A bin gets its share of the amounts,
rounded down (`Part`): what is worth `MinWorth` is held, what is worth less is a
residue whose burn yields nothing, and for a bin that gets nothing the router
may take the add or refuse it. `ActiveShifts` is the market. An add the
bot gives up before the send is `refused`, one the router does not take
`reverted`; only the second costs an add of the life of the position.

`AddOfPosition` puts the two together: `Life` is `PositionLifecycle` with its
variables read off those of `AddLiquidity`. Up to the send an add is not seen
there; the send is `SendAdd` around the active bin as last read; `PlaceAdd` is
`AddMined` in the range moved with the active bin, and `RefuseAdd`
is `AddFailed`. `AddMined` is wide enough for that: any bins of the moved range
hold liquidity, any others a residue, the rest nothing. So the lifecycle need
not know of amounts, shapes and plans.

### Balances, InventoryPolicy and Capital

`wallet` is `[native, wmnt, usdt]`, `lp` what lies in the position, `price` that
of the pool. Every transaction is a step of its own and each may fail
(`GuardEnds`, `PolicyFails`, `EntryFails`); one that fails has changed nothing,
a lost receipt is `EntryRetry`'s subject. `pc` walks through the guard of the
native balance (`Guard…`, `TopUp…`), the exit, `apply_inventory_policy`
(`PolicyReads`, `PolicyPlans`, `PolicyCaps`), `execute_rebalance` (`Wrap`,
`Swap`, for the policy and for the gate), the gate before a wide entry (`Gate…`,
`Refresh`, `StillSkewed`), and budget, allocation and add; a narrow entry goes
past the gate. The first plan of the gate and the forced one (`GateForced`) are
steps apart, with the market in between. `seen` is the state read before a plan,
`swap` how the plan came about. The market enters as the regime, the RSI and the
band of the price against its 24 h average, which each guard reads for itself
(policy and gate of one cycle may see different bands); a read of the average
that fails is `"unknown"` and blocks nothing, as in the code. The amounts of a
plan go through `serialize_decimal`, which rounds them one by one to 12 places
where WMNT has 18: `Grain` is that last place in units of the wallet, and
`Serialized` rounds to it, ties to even. `since` counts cycles since the last
swap of each side.

### MarketView, StrategyEngine and MarketLoop

A weather is what the candles show: the trend of three timeframes (`"none"` when
they cannot be had) and the indicators; `channel` says whether there are the 50
candles the channel wants, `frames` whether the analysis of the timeframes came
through, each of which can fail without the other. `MarketState` makes of it
what `KeltnerAnalyzer` and `MTFAnalyzer` do; `OptimalBins` is the measure of a
held position, `EntryBins` that of an entry, two paths that differ in the
regime. `MarketLoop` puts the engine into the cycle: `Prepare` takes the look
and the snapshot and searches the snapshot for changes from outside, `Decide`,
`Exit`, `Reselect` and `Enter` are the rest. A position too small, or whose
worth could not be read, is none for the strategy (`Normalized`), so that an
entry may lie upon a residue. A snapshot may fail before it is recorded or
between the record and the search (`RecordSnapshot`), and a cycle that raises or
takes long only lets time pass (`LosesTime`). Market and weather change between
any two steps; the owner acts while the bot sleeps. `reg` is what the registry
thinks, which an owner's removal does not reach. `fresh` and `causes` (who
changed the position since the last snapshot: the owner, the bot without a
record, a recorded entry) are history. That `to_dict` of the channel raises is
left out.

### RpcRotation

`active` is the endpoint of `w3`, `home` the one the contracts of LPService and
BalanceManager were built with; `up` changes at any time. `queue` are the places
of the order of endpoints still to be tried, taken from the least on. `Rotate`
is `reconnect` up to the first try and `Connect` one try of
`_connect_with_failover`, so an endpoint may come or go between two tries.
`Error` is a status of HTTP or an error of JSON-RPC, which `call_with_retry`
catches; `Unreachable` is what `requests` raises when nobody answers, which it
does not: the `ConnectionError` and `TimeoutError` it names are the builtin
ones.

## 3. Runs

All runs use definitions of the modules as they are; a `.cfg` only gives
constants their values.

| run | states | what it shows |
|---|---|---|
| `registry` | 495 677 | One process, crashes and failed saves anywhere: types; `OneActivePerType`; `RangesCoverAmounts`; `FileFollowsMemory` (what a restart reads is what the process has in memory or, after a save that failed early, a state it had before); `MemoryIsHistory`; `ExitedStaysExited`; and `ImplementsBook`, the refinement of `PositionBook`. |
| `bins` | 31 955 | Adds while the active bin moves: `RouterAccepts`, `SharesFollowPlan`; and `ImplementsLife`, the refinement of the add of `PositionLifecycle`. As an assumption that is evaluated (`SearchOfSmallSets`), the search over every set of bins among nine. |
| `capital` | 904 179 | Two cycles of the wallet: `SwapFundedToAGrain` (but for the last place of a sale and of its wrap), `NoWhipsaw` (a cycle that sells and buys has sold above the average and bought below it), `SwapWithinCap` (of the step that makes the plan, at the price its state was read at: between reading and planning the market is free, and a price that has moved is in no cap), `EntryKeepsReserve`, `TopUpWithinTarget`. |
| `loop` | 425 660 | The engine in the loop: `FreshEntryIsHeld`; `RecordedEntriesAreNotFlows` (a recorded entry is taken for a deposit only by a snapshot as late as the window); and under fairness `NeverStranded`: no drift beyond the cap for good, unless the position is never again looked at as one, being a residue or its worth unreadable. |
| `lifecycle` | 1 235 952 | `PlanMatchesChain`, `EntriesHaveLiquidity`, `ForgetsOnlyTheUnseen`, `RemovalTakesAll`; and of the search in every state of the chain: `FindsWhole`, `WidensToTheEnd`. |
| `entry` | 1 350 446 | `BooksNeverAhead`, `EnteredIsOnChain`, `AtMostTwoReverts`, `DoublesComeFromDoubt`, and `CallReturns` under fairness. |
| `cycle` | 43 774 | `FailuresAreCounted`, `EnteredEventsAreTrue`, `RemovalsAreSpaced`, `StacksOnlyUnknowingly`, and `StuckTripsBreaker` under fairness. |
| `rpc` | 33 840 | `SkipsNeverEverything`, and `ClientCallsFailOver` under fairness. |
| `registry_amounts`, `lifecycle_start`, `capital_side`, `own_operations` | – | each violates one statement of the repository's docs or comments: the findings below. |

Bounds, and why they are enough:

- `registry`: two bins, one token or none in an add, three adds (create, merge,
  create again after an exit), the last for amounts that could not be read. Two
  bins tell a range that grows from one that does not; three adds are the
  shortest history with an exited and an active entry of one type and a merge.
- `bins`: ranges of two, three and five bins (the three of the SDK's own
  distribution among them), mostly below, centred and mostly above the active
  bin, amounts of nothing, little and much of either token, a worth below which
  a bin holds a residue, five shapes, two moves of the active bin where one is
  within the slippage. For the search over all sets of bins among nine, windows
  of one and three bins and a widening of two: holes shorter than, as long as
  and longer than the widening all occur; the code's numbers (20, 50, 100, 200;
  100) only scale this. The pool of `Life` has eleven bins, so that no range of
  an entry reaches its ends.
- `capital`: the thresholds of the settings in dollars, wallets from empty to a
  hundred and fifty, prices of one and two dollars with one move anywhere, two
  cycles, so that a cooldown of two outlasts the run. A move of the price after
  a plan, after a wrap and inside the guard all occur, as do swaps of the policy
  and of the gate in one cycle. The grain is two units, so that half of it can be
  lost, and WMNT that is no multiple of it occurs.
- `loop`: two active bins 52 apart, beyond the cap of the tolerance and the hold
  of an oversold market, and an owner's range between them, within the least
  tolerance of one. Three weathers: oversold, for a wide entry; too few candles
  for the channel, for none; a failed analysis of the timeframes, for a narrow
  one. A position of up to 13 bins (the owner's and a narrow one) may count as a
  residue, one snapshot in a row may fail. The poll interval is half the window of a
  recorded operation, so that after a failed snapshot, or a cycle that lost time, the
  next one comes as late as the window and otherwise does not; at the default (300
  seconds each) it always does, which `MCLoopDefault` shows.
- `lifecycle`: three bins, adds up to three bins wide, a slippage of one bin,
  chunks of two, two adds, one removal at a time that was lost sight of: a merge
  or a second type, a removal of two chunks, a late one beside another, a shift
  of the active bin, and bins out of reach of window and probe (one) all occur.
  `lifecycle_start` has a bin and a window more.
- `entry`: three attempts where `constants.py` has five endpoints (the first,
  the second from which a revert is final, and the last), and two calls, the
  least with an add of the first mined during the second. The wallet can pay for
  two adds and not for three; the third can only revert. The violation run has
  one call.
- `cycle`: one unit of time is the cooldown; the hold is two by day and four by
  night, as 1800 s and 3600 s are to 900 s. The limit of the breaker is that of
  the code, three. Two entries may lie on each other.

- `rpc`: three endpoints, one of them configured and not in the list, and the
  three attempts of the code: a rotation that skips one, two and none, and one
  that is emptied.

`CHECK_DEADLOCK FALSE` stands where a run may end: an add of `bins` with the
answer of the router, the entry runs when the calls have returned and nothing is
pending, and the capital runs after their last cycle.

Symmetry is used in the lifecycle runs for the two types, which
`PositionLifecycle` treats alike; they check no liveness.

### Fairness

- `EntryRetry!FairSpec` has weak fairness of the bot's own steps. Every wait of
  the call has an end: the receipt has a timeout of two minutes (web3's
  default), HTTP requests time out. Nothing is assumed of the chain: a
  transaction may stay pending for ever.
- `FarmCycle!FairSpec` has weak fairness of the bot's steps and of time. The
  loop `continuous` of `farm_bot.py` catches what a cycle raises and sleeps
  between cycles, so another one always follows. Reads must succeed sooner or
  later: a cycle that cannot look changes nothing and is a stutter of the model.
  Nothing is assumed of the operator, the chain, or of the process being
  restarted. `StuckTripsBreaker` is conditional on the position being stuck for
  ever.

- `MarketLoop!FairSpec` has weak fairness of the bot's steps, as above, and strong
  fairness of an exit being let through and of a removal that succeeds. The
  gates in between are timers that run out (`FarmCycle`, where an exit that is
  wanted again and again is let through unless the breaker has tripped), and a
  removal that fails for ever ends with the breaker (`StuckTripsBreaker`), after
  which nothing but a restart helps; `NeverStranded` is about a bot whose removals
  succeed now and then, and cycles that do not fail. Nothing is assumed of market,
  weather, owner or snapshots.
- `RpcRotation!FairSpec` has weak fairness of the client's steps: the loop goes
  on calling and every request ends. Nothing is assumed of the endpoints but
  what the property itself says.

### Findings

Checked by runs of their own:

1. `registry_amounts` – amounts merged under string keys beside integer keys are
   lost by the next save and load (`_lp_registry.py:212`).
2. `lifecycle_start` – an unregistered bin, be it a residue, makes a start remove
   the whole visible position, registered bins included (`farm_bot.py:116`).
3. `capital_side` – the policy takes the side of a swap from its target and not
   from its plan, so the guards judge a sale as a purchase (`reentry_policy.py:328`).
4. `own_operations` – an exit of the bot records no operation, and the next
   snapshot takes it for a withdrawal of the owner (`analytics.py:324`). At the
   default interval a recorded entry is taken for a deposit, too (`MCLoopDefault`).

Further configurations show a violation when run by hand (`tlc -config X.cfg M`):

- `MCRegistryShared` – after `moe lp remove` beside the running bot, the bot's
  next save brings the removed entry back (`lp_service.py:1886`).
- `MCEntry`, `MCEntryBudget.cfg` – an attempt given up after its add was
  broadcast, and its retry, can both be mined: twice the allocation.
- `MCCycle`, `MCCycleCooldown.cfg` – the documented "minimum between exit and
  re-entry" only holds back the next exit; the re-entry is part of the same call.
- `MCRpc`, `MCRpcPool.cfg` – the pool contracts keep the endpoint of the
  construction, whatever the rotation does (`lp_service.py:107`).
- `MCCapital`, `MCCapitalMinority.cfg` – "If minority token < $5, we MUST swap a
  small amount regardless of guards" (`farm_bot.py:777`): the check of the size
  of the first plan comes before it and waits instead.
- `MCCapital`, `MCCapitalFunded.cfg` – a sale and the wrap before it are rounded
  one by one (`balance_manager.py:393`, `utils.py:41`): with WMNT beyond the
  twelfth place the swap is a grain short and fails (`SwapIsFunded`).
- `MCLoop`, `MCLoopDefault.cfg` – with the default poll interval of 300 seconds
  (`farm_bot.py:1925`, `src/docker-compose.yml:35`,
  `src/docs/cli-reference.md:137`), the window itself, every snapshot comes too
  late: an entry on record is an `external_add`.
- `MCLoop`, `MCLoopOutage.cfg` – the "safe default analysis" of
  `keltner_analyzer.py:423` is ten percent wide, by which a small position near
  its end is unfit: missing candles make the bot leave a position in range.

Met while modelling, without a run:

- A range without bins on one side of the active bin (an upside of the least
  percentage and few bins): a shift of the active bin forces a mode, and the
  recompute may leave an amount without any share. `RouterAccepts` is therefore stated
  for ranges with bins on both sides; those of the settings have them.
- The three-bin distribution of the SDK says nothing of what it uses, which the
  check of the fill reads as zero: such an entry is always refused.
- The zeroing of unused amounts never changes one, since the least share of an
  empty bin comes first.
- The steepness of a slope cancels out when its weights are normalised.
- What is entered is kept as long as `position_upside_pct` (`config.py:51`, 0.55
  by default, not checked) is from 0.25 to 0.74. At less or more a narrow entry
  of eight bins has its active bin within the headroom of 15 % that the engine
  asks for (`engine.py:268`), and the next cycle exits it. The theorem
  `FreshEntriesAreHeld` says that no entry of any width does so inside that range.
- The fallback of a rotation to the whole list of endpoints (`rpc_client.py:53`)
  is never reached (`RotationAvoidsTheFailed`): the list of the failed ones was
  emptied before, or there is an endpoint off it.
- The forced swap of the gate: its cap of fifty dollars is overwritten by the
  next plan, and the sign of its step is the reverse of the skew; the clamp
  keeps it below a tenth of the wallet (`SwapWithinCap`).
- Swap plans ignore the gas reserve, and the allocation may take up to twice its
  target, as either token alone may reach it (`balance_manager.py:612`).
- What the owner does within 300 seconds of an operation of the bot is never
  recorded, for the snapshot of then is the next one's reference.
- A removal by the owner is noticed late or never: the snapshots take their bins
  from the registry when the chain holds nothing.
- `pool_stats` is never passed to the engine, so the gate on fees is dead;
  pending fees are always missing, so fee deltas are, too; the tolerance for a
  four percent channel is 24 bins where the comment says 32 (`engine.py:177`).
- An event left "exiting" by a stop is never resolved: `finalize_pending_reentries`
  takes only those that were entered.

The properties that hold say where these stop: `DoublesComeFromDoubt` that a
second add always has a lost attempt or an unseeing call before it,
`ForgetsOnlyTheUnseen` that liquidity that is seen keeps its entry,
`ExitedStaysExited` that a single process never revives an entry, `NoWhipsaw`
that a misjudged side is not bought back at a loss in the same cycle,
`RecordedEntriesAreNotFlows` that entries which were recorded are told apart as
long as the snapshot after them is in time.

## 4. Proofs

`tlapm` checks every theorem to the last leaf, for every value of the constants
that the assumptions allow. TLC evaluates each assumption in the runs.

| module | assumptions on its constants | what they say |
|---|---|---|
| `LPRegistry` | `BinsAssumption`, `MintedAssumption`, `MaxAddsAssumption` | bins and amounts are numbers; any processes |
| `BinDiscovery`, `PositionLifecycle` | `WidthsAssumption`, `SearchAssumption`, `LifecycleAssumption` | windows grow, a chunk has a bin; any pool, slippage, number of adds |
| `Distribution`, `AddLiquidity` | `DistributionAssumption`, `AddAssumption` | a share has at least two units, a skew is a share; amounts fit the unit of the shares, prices of bins in reach are positive and not beyond the scale |
| `AddOfPosition` | `FitAssumption` | the ranges of the entries lie in the pool |
| `EntryRetry` | `AttemptsAssumption`, `CallsAssumption`, `AllocAssumption` | an attempt and a call; an allocation lies within the budget and the budget within the wallet |
| `Balances`, `InventoryPolicy`, `Capital` | `BalancesAssumption`, `PolicyAssumption`, `CapitalAssumption` | amounts are numbers, shares are at most the whole, neither prices nor the grain are zero |
| `FarmCycle` | `CycleAssumption` | a hold by night is no shorter than by day |
| `RpcRotation` | `ListedAssumption`, `RetriesAssumption` | a list that is not empty, at least one retry |
| `StrategyEngine`, `MarketLoop` | `EngineAssumption`, `LoopAssumption` | types of the settings and of what the candles show |

Those of `RegistryBook` have the hypothesis `OneProcess`: one process works on
the file; with two they are false, as `MCRegistryShared` shows. Two more
theorems need something and say so in their statement: `CapitalNoWhipsaw` a
cooldown above zero and `FreshEntriesAreHeld` an upside of 25 to 74 percent
(beyond it is false). The constants of the runs satisfy both.

No library theorem of induction can be instantiated by the installed provers. Where a
statement is about every step of a search, or about every subset of a range, its
proof takes the least case at which it fails and refutes that one: a set of
numbers that is not empty has a least member (`LeastExists`, `LeastNumber`, from
the well-foundedness of `<`), and a set of finite sets one that leaves it with any
element taken out (`LeastSet`).

### LPRegistryProofs: any number of processes on one file

- `TypeCorrect`: `Spec => []TypeOK`. The invariant is inductive as it stands;
  lemmas say that creating, merging, marking and rereading an entry yield an
  entry, and that what is marked lies in the registry.
- `OneActive`: `Spec => []OneActivePerType`, on top of `TypeCorrect`. A torn or
  overwritten file must not bring a second active entry either, so the invariant
  is about every copy: memory, file and backup. The heart is `AddedSingle`: an
  add creates only where nothing is active and merges into the entry the code's
  `next(...)` finds, which is active (`FirstActiveIsActive`).
- `RangesCoverAlways`: `Spec => []RangesCoverAmounts`. A merge widens before the
  amounts of the new bins count, a reload moves amounts from one kind of key to
  the other but not between bins (`RereadInRange`).
- `MemoryKeepsHistory`: `Spec => MemoryIsHistory`, an action property: whatever a
  step does to the entries in memory, it appends, widens the active one or marks
  it, and never touches one that was exited.

### LPRegistryProofs, second part: the registry of a single process

- `FileFollowsTheOnlyMemory`: `Spec => []FileFollowsMemory`, from `BookInv`: a
  file that cannot be read counts as empty, a file being saved is torn, and
  between operations a file that can be read reads back as the memory does
  (`Parsed(file.reg) = Parsed(mem[Bot])`; equality itself is false, for a save
  brings the amounts under one kind of key) or, while a save that failed early
  has not been made up for, as a state the memory's history goes on from.
  Reading back twice is reading back once (`ParsedTwice`).
- `RegistryImplementsBook`: `Spec => ImplementsBook`. Initial states map to
  initial states, and every step of an operation, a save, a stop or a reload to a
  step of `PositionBook` or a stutter: the end of a save stores the book, a stop
  goes back to the stored one, and a reload changes nothing, which needs `BookInv`.
- `ExitedNeverReturns`: `Spec => ExitedStaysExited`. `SaveInv` adds that entries
  of a list have different names, that names are handed out in order, and that
  what a save writes succeeds what the backup holds. With two processes it is
  false (`MCRegistryShared`), and so is the invariant.

### PositionLifecycleProofs

- `LifecycleTypeCorrect`, with the strengthening `Typed`: an add on its way is a
  proper one, and there is a plan only while a removal is under way.
- `LifecyclePlanMatchesChain`: `Spec => []PlanMatchesChain`: only what the bot
  itself burns leaves the chain, and what is still to do is what was not burnt,
  or was by a removal given up before and mined after the plan (`taken`).
- `LifecycleEntriesHaveLiquidity`, the property of the books against the chain.
  It is not inductive: while a removal burns, an entry stands for bins that are
  gone. `BurntIsGone` and `EntriesStand` say what is true in between: an entry has
  liquidity or a place in the plan, so has the add about to be registered, or the
  type is excused by a failure.
- `LifecycleForgetsOnlyTheUnseen`, `LifecycleRemovalTakesAll`: action properties;
  the second is where the search comes in.
- `WholeIsFound`: for every set of bins without holes, every active bin and every
  list of windows, the search finds all of it if the widest window shows any.
  `ConnectedIsFound`: with holes, the widened search stops exactly where
  `SearchChunk` bins in a row hold nothing. The recursion of the
  search is matched to a non-recursive description of where it stops (the
  greatest bottom, the least top of an empty stretch) by the least-counterexample
  argument.
- `LifecycleFindsWhole`, `LifecycleWidensToTheEnd`: `Spec => []FindsWhole` and
  `Spec => []WidensToTheEnd`. What lies on the chain is at all times a set of bins
  of the pool (`HeldIsBounded`), to which the two theorems on the search apply.

### AddLiquidityProofs

The distributions are sums over the bins of a range, which the community modules
define by a fold. Expanded, a fold is a recursive function over the subsets of a
set. That function exists and is the only one (`SumsExist`, `SumsAgree`, both by
the least case at which they would fail), so `S(f, D)` is a value that can be
reasoned about: `SumSplit` takes one element out, `SumRatio` compares two sums
place by place and thereby bounds the rounding of shares, `SumZero`, `SumExcept`
and `SumRaised` say when a sum vanishes and what filling up changes. Above them,
along the way of the code:

- a range of an entry is an interval around the active bin, weights are numbers in
  every shape, and each candidate *fits* (`UniformFits`, `OneSidedFits`,
  `ShapedFits`): X at the active bin and above, Y at it and below, in sum what it
  says it uses and no more than there is; `Best` is one of the candidates;
- the shares of an allocation hand out what it uses, less one unit at most
  (`SharesOfAllocation`: the last bin gets what is left), and filling up the
  empty bins takes no more than one unit a bin from it (`HandsOutTheUsed`);
  together `PlansAreGood`.

`AddInv` carries this through the steps: from the plan on, the plan fits the range
and the amounts *as they are now*, also after the amounts were set to zero and
after a recompute for another active bin (`ZeroedFits`: a token without a share is
not used). From it follow

- `AddSharesFollowPlan`: `AddSpec => []SharesFollowPlan`;
- `AddRouterAccepts`: `AddSpec => []RouterAccepts`. With bins on both sides every
  plan has a share of either token, whatever mode a shift of the active bin
  forces, so that the zeroing done before the last look and not after it does
  no harm;

- `AddImplementsLife`: `AddSpec => ImplementsLife`. Every step of an add and of the
  router is a step of `PositionLifecycle` or none. The send is where `RangeEnds` (the
  range is the interval the lifecycle sends) is needed, the mining where
  `AddInv` is: shares are of bins of the range, so that what is minted lies in
  the range moved with the active bin. Bins that get a residue or nothing are left
  open on both sides; the refinement says that the lifecycle has every add that
  `create_position` and the router make, not that it has no other.

### EntryRetryProofs

`EntryInv` is one invariant for the five theorems `EntryTypeCorrect`,
`EntryBooksNeverAhead`, `EntryIsOnChain`, `EntryRevertsTwiceAtMost` and
`EntryDoublesComeFromDoubt`:

- each attempt of a call has at most one transaction, in the pool or on the
  chain and not in both; without that an add could be mined twice;
- a call that says it entered has a success on the chain (`SaidIsEntered`);
- until an attempt is registered, what the books say is borne by the successes
  of other attempts (`BooksFollow`): `BooksNeverAhead` alone would let the
  step of registering count an add that was counted before;
- attempts out of the bot's sight that may yet succeed are among the
  doubts (`DoubtsAreCounted`), by which a late add is paid for before it is mined;
- a revert that is no doubt was seen: it is forgiven once and on the first
  attempt only, and what is pending is a doubt or being waited for
  (`RevertsAreSeen`).

### CapitalProofs

- `CapitalTypeCorrect`, `CapitalSwapFundedToAGrain`, `CapitalEntryKeepsReserve`
  and `CapitalTopUpWithinTarget` share `MoneyInv`, which says at each `pc` what
  plan, budget and allocation have to do with the wallet: a plan is covered, to
  a grain, by what can be wrapped and what is wrapped (`Covered`), budget and
  allocation leave reserve and headroom (`Spares`), and what the guard still
  needs is missing to twice the minimum. Under it lie lemmas about the operators
  of `Balances` (`PlanIsCovered`, by which rounding to a grain is off by half of
  it at most, what a budget and an allocation leave) and about division and
  products, as the plan divides by prices and multiplies by shares and neither
  is linear.
- `CapitalNoWhipsaw`: `TradesInv`. A swap under a known average is charged to the
  side that average favours, also when the policy's plan goes the other way than
  its target. While that side cools down the gate does not swap to it; so the
  gate either goes the same way as the policy went, or the policy's swap went
  the way its own average favoured, and the gate's does as well. Prices and
  averages of the two are independent reads.
- `CapitalSwapWithinCap`: `SightInv`, that the state a plan is made from is what
  was read. As a property of states it is false once the price moves between
  reading and swapping, so it is stated of the step that makes the plan at the
  price that was read. The capped ratio lies between weight and target and moves
  by at most the cap and a basis point; a forced swap stops at the clamp, a
  tenth of the wallet, whichever way it goes.

### FarmCycleProofs

- `FailuresCounted`: `Spec => []FailuresAreCounted`. It is not inductive. The
  strengthening `BreakerHolds` adds that the count is below the limit while an
  exit is under way that may still fail (the gate was open), and that nothing is
  wasted once a removal has succeeded (so that the reset of the count at the end
  of the call loses nothing).
- `EventsAreTrue`: `Spec => []EnteredEventsAreTrue`. Strengthened by what the
  event can be at each step of the exit: `added` is reset with the new row, and
  no row says "entered" before the re-entry is over.
- `StacksUnknowingly`: `Spec => StacksOnlyUnknowingly`, an action property, from
  the invariant `LooksHold`: when the bot is about to enter, either nothing is on
  the chain, or the look missed it, or someone added since.
- `RemovalsSpaced`: `Spec => RemovalsAreSpaced`, an action property. The timer of
  the code is the time since the last removal (`TimerIsTrue`): it is set in the
  step of the removal and nothing that fails later resets it.
- `CycleTypeCorrect`: `Spec => []TypeOK`.

### RpcRotationProofs

`OneIsLeft`, `Spec => []SkipsNeverEverything`, is inductive; a rotation empties
the list in the step that would complete it. `RotationTypeCorrect` bounds the
tries of a call. `RotationAvoidsTheFailed` says of the step that it takes only
endpoints off the list and always has one.

### MarketLoopProofs

- `FreshEntriesAreHeld`: `Spec => []FreshEntryIsHeld`. The engine measures a
  position by `OptimalBins`, which knows the regime, and an entry by `EntryBins`,
  which does not. Lemmas bound the two against each other (at most three tenths
  apart for a wide one) and place the active bin in a range of every width and
  upside. `LoopInv` says that the plan was made for the weather there is and that
  the position lies where this weather and this price put it.
- `RecordedEntriesStayTheBots`: `Spec => RecordedEntriesAreNotFlows`, for any poll
  interval. `Accounted`: since the last snapshot that was recorded, what a snapshot
  shows has changed only if something is on the list of causes. What is suspected
  without the owner or an unrecorded act is a recorded entry, and then the search
  itself requires the operation to be as old as the window.
- `TooFarIsLeft`: in any weather a position beyond tolerance, cap and the
  patience with an oversold market is left. It is the safety half of
  `NeverStranded`.

### Only model-checked

- Liveness, which like ENABLED is out of the prover's reach: `CallReturns`,
  `StuckTripsBreaker`, `ClientCallsFailOver`, `NeverStranded`.
- What the runs of the findings show: those are counterexamples.

No module declares a RECURSIVE operator.

## 5. Not modelled, and why

- Fees of the pool and of gas, decimals and raw amounts: the models count whole
  units, and what the router keeps is rounding.
- Fees of a position and its value over time: only reports use them.
- The MNT accumulation: off by default, and a ledger nothing reads. What it
  holds back (the whole native balance, at each exit anew) is neither taken off
  the budget nor kept from a swap.
- The gas estimates and approvals of the sender: one nondeterministic failure in
  `EntryRetry`. The scan of transfer logs in the RPC client: it only reads.
- Top-ups of a held position: the settings disable them.
- `narrow_range.py`, the rest of `wide_range_lp_manager.py`, `get_strategy_position`:
  no caller in the bot.
- `can_create_position`, `reconcile_with_onchain` and `CleanSlateRedeployment`
  of `_lp_registry.py`, and the search in transfer logs: nothing in the bot
  calls them.
- Indicators in floating point (`quant/`; `MarketView` starts from their
  values), the offline backtest, notifications, reports, configuration and key
  storage: no state that the properties are about, or arithmetic that TLC does
  not have.
- `BalanceManager.swap_exact_in`, which the cycle calls before an entry, does not
  exist; the call is caught as a non-fatal error, so the models start after it.

## 6. Plan

Done: the registry, discovery, lifecycle, entry, cycle, RPC client, the
distributions, capital, and the engine in its market.

Every safety property of the runs that pass is a theorem, and so are the two
refinements. Left:

1. The amounts of a removal: the lifecycle takes bins off as a whole, and what a
   chunk returns is only counted in `Capital`.
2. An abstract specification of the whole entry ("at most one add per call, or a
   doubt") that `EntryRetry` implements and `FarmCycle` uses, in place of the
   outcomes that `FarmCycle` assumes today; the refinement can build on `EntryInv`.
3. Re-entry events over several exits, with the events that a stop leaves open.
