------------------------- MODULE PositionLifecycle -------------------------
(***************************************************************************)
(* One wallet's liquidity through its life: entered, registered, found     *)
(* again by its balances, taken off the chain a chunk of bins at a time,   *)
(* deregistered; and, after a stop at any point, what a restart makes of   *)
(* the chain and the registry it finds (LPService and FarmBot.__init__).   *)
(* reg is the registry as the bot would read it, the file and its failures *)
(* being the matter of LPRegistry.                                         *)
(***************************************************************************)
EXTENDS BinDiscovery

CONSTANTS Types,       \* the strategy types
          TopBin,      \* bound: the bins are 0..TopBin
          Half,        \* bound: bins of an add on either side of the active one
          IdSlippage,  \* ID_SLIPPAGE: bins the active one may be off by when mined
          Chunk,       \* max_bins_per_tx of a removal
          MaxAdds,     \* bound: adds in a behaviour
          MaxLate      \* bound: removals lost sight of at a time

ASSUME LifecycleAssumption ==
    /\ {TopBin, Half, IdSlippage, MaxAdds, MaxLate} \subseteq Nat
    /\ Chunk \in Nat \ {0}

VARIABLES active,   \* the active bin of the pool
          real,     \* bins in which the wallet has liquidity
          dust,     \* bins in which it has a residue: its burn would yield nothing
          reg,      \* the bins of the active registry entry of each type
          recent,   \* types whose entry was created in the last five minutes
          pc,       \* what the bot is doing
          add,      \* the add that is under way
          limbo,    \* adds that were sent and lost sight of
          late,     \* chunks of removals that were sent and lost sight of
          plan,     \* the bins the removal under way was shown
          todo,     \* those of them it has still to burn
          grown,    \* those that got tokens after they were shown
          taken,    \* those a removal that was lost sight of has burnt since
          adds,     \* adds sent so far
          excused   \* history: types whose entry a failure has left behind

chain   == <<real, dust, limbo, late>>
removal == <<plan, todo, grown, taken>>
bot     == <<reg, recent, pc, add, removal>>
vars    == <<active, real, dust, reg, recent, pc, add, limbo, late, plan, todo,
             grown, taken, adds, excused>>

Bins == 0..TopBin
Held == real \cup dust
Hull(bins) == IF bins = {} THEN {} ELSE Min(bins)..Max(bins)

Adds == [type: Types, at: Bins, lo: Bins, hi: Bins]
NoAdd == [type |-> "none", at |-> 0, lo |-> 0, hi |-> 0]

Open       == {t \in Types : reg[t] # {}}
Registered == UNION {reg[t] : t \in Types}

(* The bins get_position reports that are worth a burn; it may report       *)
(* residues, too, as far as they are above the dust threshold.              *)
Visible == real \cap Discovered(Held, active)
Scraps  == dust \cap Discovered(Held, active)

(* find_positions_by_bins *)
Affected(bins) == {t \in Types : reg[t] \cap bins # {}}

NoRemoval == plan' = {} /\ todo' = {} /\ grown' = {} /\ taken' = {}

Init ==
    /\ active \in Bins
    /\ real = {} /\ dust = {} /\ limbo = {} /\ late = {}
    /\ reg = [t \in Types |-> {}] /\ recent = {}
    /\ pc = "idle" /\ add = NoAdd
    /\ plan = {} /\ todo = {} /\ grown = {} /\ taken = {}
    /\ adds = 0 /\ excused = {}

-----------------------------------------------------------------------------
(* The market moves the active bin, whatever the bot is doing. *)
Move ==
    /\ active' \in {active - 1, active + 1} \cap Bins
    /\ UNCHANGED <<chain, bot, adds, excused>>

(* Five minutes pass. *)
Age ==
    /\ recent # {}
    /\ recent' = {}
    /\ UNCHANGED <<active, chain, reg, pc, add, removal, adds, excused>>

(* create_position sends an add around the active bin it has just read.     *)
(* The cycle enters when it sees no position, or one it takes for nothing:  *)
(* worth too little, or whose value could not be read.                      *)
SendAdd(t, left, right) ==
    /\ pc = "idle"
    /\ adds < MaxAdds
    /\ {active - left, active + right} \subseteq Bins
    /\ add' = [type |-> t, at |-> active, lo |-> active - left, hi |-> active + right]
    /\ adds' = adds + 1
    /\ pc' = "sent"
    /\ UNCHANGED <<active, chain, reg, recent, removal, excused>>

(* The router puts the tokens around the bin that is active when it runs    *)
(* the add, if that is at most IdSlippage bins off.  A bin with a share of  *)
(* next to nothing gets a residue, or nothing.                              *)
Shift(a)   == active - a.at
CanMine(a) == /\ Shift(a) \in -IdSlippage..IdSlippage
              /\ {a.lo + Shift(a), a.hi + Shift(a)} \subseteq Bins
Target(a)  == (a.lo + Shift(a))..(a.hi + Shift(a))

Deliver(a, good, poor) ==
    /\ CanMine(a)
    /\ good \cup poor # {}
    /\ good \cap poor = {}
    /\ real' = real \cup good
    /\ dust' = (dust \cup poor) \ real'

AddMined ==
    /\ pc = "sent"
    /\ \E good, poor \in SUBSET Target(add) :
          /\ Deliver(add, good, poor)
          /\ excused' = IF Shift(add) = 0 /\ good # {} THEN excused
                        ELSE excused \cup {add.type}
    /\ pc' = "mined"
    /\ UNCHANGED <<active, reg, recent, add, limbo, late, removal, adds>>

(* The add reverts or is never taken.                                       *)
AddFailed ==
    /\ pc = "sent"
    /\ pc' = "idle" /\ add' = NoAdd
    /\ UNCHANGED <<active, chain, reg, recent, removal, adds, excused>>

(* The bot stops waiting for the add, which may still be mined. *)
AddLost ==
    /\ pc = "sent"
    /\ pc' = "idle" /\ add' = NoAdd
    /\ limbo' = limbo \cup {add}
    /\ UNCHANGED <<active, real, dust, late, reg, recent, removal, adds, excused>>

LateAdd(a) ==
    /\ \E good, poor \in SUBSET Target(a) :
          /\ Deliver(a, good, poor)
          /\ grown' = grown \cup (plan \cap (good \cup poor))
    /\ limbo' = limbo \ {a}
    /\ UNCHANGED <<active, late, reg, recent, pc, add, plan, todo, taken, adds, excused>>

LateAddExpires(a) ==
    /\ limbo' = limbo \ {a}
    /\ UNCHANGED <<active, real, dust, late, bot, adds, excused>>

(* _register_position: a new entry, or the one of the type grown to cover   *)
(* both.  Whatever goes wrong in there is swallowed.                        *)
Register ==
    /\ pc = "mined"
    /\ \/ /\ reg' = [reg EXCEPT ![add.type] = Hull(@ \cup add.lo..add.hi)]
          /\ recent' = IF reg[add.type] = {} THEN recent \cup {add.type} ELSE recent
       \/ UNCHANGED <<reg, recent>>
    /\ pc' = "idle" /\ add' = NoAdd
    /\ UNCHANGED <<active, chain, removal, adds, excused>>

-----------------------------------------------------------------------------
(* A removal that takes dust for liquidity: for the check of the properties. *)
RemoveHeld ==
    /\ pc \in {"idle", "cleanup"}
    /\ Discovered(Held, active) # {}
    /\ plan' = Discovered(Held, active) /\ todo' = plan' /\ grown' = {} /\ taken' = {}
    /\ pc' = "removing"
    /\ UNCHANGED <<active, chain, reg, recent, add, adds, excused>>

(* remove_position, on an exit or to clean up after a start: what           *)
(* get_position reports, whatever the registry says of it, less the bins    *)
(* of which a burn would yield nothing.  If that is all of them, it ends    *)
(* there, and leaves the registry alone.                                    *)
StartRemove ==
    /\ pc \in {"idle", "cleanup"}
    /\ Visible # {}
    /\ \E shown \in SUBSET Scraps : plan' = Visible \cup shown
    /\ todo' = Visible /\ grown' = {} /\ taken' = {}
    /\ pc' = "removing"
    /\ UNCHANGED <<active, chain, reg, recent, add, adds, excused>>

FirstChunk == {b \in todo : Cardinality({c \in todo : c < b}) < Chunk}

(* A chunk is burnt, to the amounts found when the removal began, which are *)
(* still there: down to nothing or to a residue, but for the bins that got  *)
(* more since.                                                              *)
Burn(bins, more) ==
    /\ bins \subseteq real
    /\ \E rest \in SUBSET more, residue \in SUBSET bins :
          /\ rest \cap residue = {}
          /\ real' = real \ (bins \ rest)
          /\ dust' = dust \cup residue

RemoveChunk ==
    /\ pc = "removing" /\ todo # {}
    /\ Burn(FirstChunk, FirstChunk \cap grown)
    /\ todo' = todo \ FirstChunk
    /\ UNCHANGED <<active, limbo, late, reg, recent, pc, add, plan, grown, taken, adds, excused>>

(* The removal ends before all is burnt, the chunk under way unsent or lost *)
(* sight of.                                                                *)
GiveUp ==
    /\ late' \in {late, late \cup {FirstChunk}}
    /\ Cardinality(late') <= MaxLate
    /\ excused' = excused \cup Open
    /\ NoRemoval

(* A preview or a transaction reverts, or its receipt does not arrive.      *)
RemoveFails ==
    /\ pc = "removing" /\ todo # {}
    /\ pc' = "idle"
    /\ GiveUp
    /\ UNCHANGED <<active, real, dust, limbo, reg, recent, add, adds>>

(* What such a chunk burns is missing from an entry made meanwhile, too.    *)
Touched(bins) ==
    Affected(bins) \cup
    {t \in Types : pc = "mined" /\ t = add.type /\ (add.lo..add.hi) \cap bins # {}}

(* A chunk that was lost sight of is mined after all, if the wallet still   *)
(* has what it burns; whether its bins got more meanwhile is not kept.      *)
LateBurn(bins) ==
    /\ Burn(bins, bins)
    /\ late' = late \ {bins}
    /\ taken' = taken \cup (plan \cap bins)
    /\ excused' = excused \cup Touched(bins)
    /\ UNCHANGED <<active, limbo, reg, recent, pc, add, plan, todo, grown, adds>>

LateBurnExpires(bins) ==
    /\ late' = late \ {bins}
    /\ UNCHANGED <<active, real, dust, limbo, bot, adds, excused>>

(* Only the entries of which every bin was burnt: for the check of the      *)
(* properties.                                                              *)
DeregisterWhole ==
    /\ pc = "removing" /\ todo = {}
    /\ reg' = [t \in Types |-> IF reg[t] \subseteq plan THEN {} ELSE reg[t]]
    /\ recent' = recent \cap {t \in Types : reg'[t] # {}}
    /\ pc' = "idle" /\ NoRemoval
    /\ UNCHANGED <<active, chain, add, adds, excused>>

(* _deregister_positions: every entry that has one of the burnt bins in its *)
(* range.  An exception is swallowed and leaves the rest of them.           *)
Deregister ==
    /\ pc = "removing" /\ todo = {}
    /\ \E kept \in SUBSET Affected(plan) :
          /\ reg' = [t \in Types |-> IF t \in Affected(plan) \ kept THEN {} ELSE reg[t]]
          /\ recent' = recent \ (Affected(plan) \ kept)
          /\ excused' = excused \cup kept
    /\ pc' = "idle" /\ NoRemoval
    /\ UNCHANGED <<active, chain, add, adds>>

-----------------------------------------------------------------------------
(* The process ends, at any point; what is under way may still be mined.    *)
Stop ==
    /\ pc # "down"
    /\ pc' = "down" /\ add' = NoAdd
    /\ limbo' = IF pc = "sent" THEN limbo \cup {add} ELSE limbo
    /\ \/ pc = "removing" /\ todo # {} /\ GiveUp
       \/ pc = "removing" /\ todo = {} /\ NoRemoval /\ excused' = excused \cup Open
                         /\ UNCHANGED late
       \/ pc # "removing" /\ UNCHANGED <<late, removal, excused>>
    /\ UNCHANGED <<active, real, dust, reg, recent, adds>>

(* A reset that forgets to forget the ages: for the check of the properties. *)
BootHalf ==
    /\ pc = "down"
    /\ pc' = "boot"
    /\ reg' \in {reg, [t \in Types |-> {}]}
    /\ UNCHANGED <<active, chain, recent, add, removal, adds, excused>>

(* get_registry: the file may be unreadable, and is replaced by an empty    *)
(* registry.                                                                *)
Boot ==
    /\ pc = "down"
    /\ pc' = "boot"
    /\ \/ UNCHANGED <<reg, recent>>
       \/ reg' = [t \in Types |-> {}] /\ recent' = {}
    /\ UNCHANGED <<active, chain, add, removal, adds, excused>>

Missing      == Registered \ Probed(Held, active)
Unauthorized == Probed(Held, active) \ Registered

(* reconcile that drops an entry as soon as one bin is missing: for the     *)
(* check of the properties.                                                 *)
ReconcileAny ==
    /\ pc = "boot"
    /\ reg' = [t \in Types |-> IF reg[t] \cap Missing # {} THEN {} ELSE reg[t]]
    /\ recent' = recent \cap {t \in Types : reg'[t] # {}}
    /\ pc' = IF Unauthorized # {} /\ recent' = {} THEN "cleanup" ELSE "idle"
    /\ UNCHANGED <<active, chain, add, removal, adds, excused>>

(* reconcile, and what FarmBot.__init__ does about its answer: entries of   *)
(* which every bin is missing are dropped; bins no entry covers call for    *)
(* the removal of the position, unless an entry is recent.                  *)
Reconcile ==
    /\ pc = "boot"
    /\ reg' = [t \in Types |-> IF reg[t] \subseteq Missing THEN {} ELSE reg[t]]
    /\ recent' = recent \cap {t \in Types : reg'[t] # {}}
    /\ pc' = IF Unauthorized # {} /\ recent' = {} THEN "cleanup" ELSE "idle"
    /\ UNCHANGED <<active, chain, add, removal, adds, excused>>

(* The chain cannot be read, or remove_position finds nothing to remove:    *)
(* logged, and the cycles begin.                                            *)
StartAnyway ==
    /\ pc \in {"boot", "cleanup"}
    /\ pc' = "idle"
    /\ UNCHANGED <<active, chain, reg, recent, add, removal, adds, excused>>

Next ==
    \/ Move
    \/ Age
    \/ \E t \in Types, left, right \in 0..Half : SendAdd(t, left, right)
    \/ AddMined \/ AddFailed \/ AddLost
    \/ \E a \in limbo : LateAdd(a) \/ LateAddExpires(a)
    \/ \E bins \in late : LateBurn(bins) \/ LateBurnExpires(bins)
    \/ Register
    \/ StartRemove \/ RemoveChunk \/ RemoveFails \/ Deregister
    \/ Stop \/ Boot \/ Reconcile \/ StartAnyway

Spec == Init /\ [][Next]_vars

-----------------------------------------------------------------------------
(* Every variable has its type, and the parts of a removal belong together. *)
TypeOK ==
    /\ active \in Bins
    /\ real \subseteq Bins /\ dust \subseteq Bins /\ real \cap dust = {}
    /\ reg \in [Types -> SUBSET Bins]
    /\ recent \subseteq Open
    /\ pc \in {"idle", "sent", "mined", "removing", "down", "boot", "cleanup"}
    /\ add \in Adds \cup {NoAdd}
    /\ limbo \subseteq Adds
    /\ late \subseteq SUBSET Bins
    /\ plan \subseteq Bins /\ {todo, grown, taken} \subseteq SUBSET plan
    /\ adds \in 0..MaxAdds
    /\ excused \subseteq Types

(* A removal burns only what is on the chain: the bins it has still to burn *)
(* hold liquidity, however long ago it found them, but for those that a     *)
(* removal given up before it has taken meanwhile.  No residue, and no bin  *)
(* burnt by a chunk of its own, ends up in a transaction that must revert.  *)
PlanMatchesChain == todo \subseteq real \cup taken

(* Between two operations a registry entry stands for liquidity on the      *)
(* chain, unless a failure, a removal given up before or a shift of the     *)
(* active bin has come between: neither a removal nor a start leaves a      *)
(* ghost behind by itself.                                                  *)
EntriesHaveLiquidity ==
    pc = "idle" => \A t \in Open : t \in excused \/ reg[t] \cap real # {}

(* A bin with liquidity loses its registry entry only to a removal that did *)
(* not see it, or saw it before it got more, or to a start that cannot read *)
(* the file or is too far away: what the bot sees it never forgets.         *)
ForgetsOnlyTheUnseen ==
    [][\A b \in Registered \cap real \cap real' :
          b \notin Registered' =>
             \/ pc = "removing" /\ (b \notin plan \/ b \in grown)
             \/ pc = "boot" /\ b \notin Probed(Held, active)
             \/ pc = "down"]_vars

(* A position without holes, any bin of which lies in the widest window, is *)
(* found whole by _discover_bins_near_active, whichever window answers.     *)
FindsWhole == FoundWhole(Held, active)

(* What the widening of the widest window finds ends where SearchChunk bins *)
(* in a row hold nothing, below and above, and nowhere before.              *)
WidensToTheEnd == FoundIsConnected(Held, active)

(* A position without a hole, in reach of the widest window, is removed     *)
(* whole, but for the residues of which a burn would yield nothing.         *)
RemovalTakesAll ==
    [][pc # "removing" /\ pc' = "removing" /\ Contiguous(Held) => todo' = real]_vars

(* FarmBot.__init__: what a start removes are the unregistered bins.        *)
StartRemovesUnregistered ==
    [][pc = "cleanup" /\ pc' = "removing" => todo' \cap Registered = {}]_vars
=============================================================================
