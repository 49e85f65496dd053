----------------------------- MODULE LPRegistry -----------------------------
(***************************************************************************)
(* The position registry (_lp_registry.py): one JSON file, and the copy of *)
(* it that each process (the farming bot, the moe command line) loads once *)
(* and then keeps in memory.  A save copies the file to the backup, opens  *)
(* the file for writing, which empties it, and then writes it: between the *)
(* two steps, and for ever if the process stops there, the file is torn.   *)
(* A save that fails before the file is open leaves it as it was, behind   *)
(* the memory of its process.                                              *)
(***************************************************************************)
EXTENDS Integers, Sequences

CONSTANTS Procs,    \* the processes that open the registry
          Bins,     \* the bin ids of the pool
          Minted,   \* the LB token amounts an add may be seen to have brought
          MaxAdds   \* bound: add_position calls in a behaviour

ASSUME BinsAssumption    == Bins \subseteq Nat
ASSUME MintedAssumption  == Minted \subseteq [Bins -> Nat]
ASSUME MaxAddsAssumption == MaxAdds \in Nat

Types == {"narrow", "wide"}

VARIABLES file,     \* lp_registry.json
          backup,   \* lp_registry_backup.json
          mem,      \* each process's LPRegistry.positions
          loaded,   \* the processes that hold a registry in memory
          saving,   \* the processes between open(file, "w") and the end of the write
          todo,     \* the positions a process still has to mark as exited
          adds,     \* add_position calls so far
          unsaved   \* only observed: the processes whose file, if it can be
                    \* read, misses a change that failed to be saved

vars == <<file, backup, mem, loaded, saving, todo, adds, unsaved>>

-----------------------------------------------------------------------------
(* A position keeps its LB token amounts in a dict, under integer keys when *)
(* it was created or loaded and under string keys when it was merged into:  *)
(* ints and strs are the two halves of that dict, 0 where a key is absent.  *)

Amounts == [Bins -> Nat]
NoAmounts == [b \in Bins |-> 0]

Position == [id: Nat, lo: Bins, hi: Bins, active: BOOLEAN,
             ints: Amounts, strs: Amounts]

Registry == [Types -> Seq(Position)]
Empty == [t \in Types |-> <<>>]

(* "foreign": a registry of another wallet; "torn": not readable as JSON *)
File == [state: {"absent", "foreign", "torn", "ok"}, reg: Registry]
Written(reg) == [state |-> "ok", reg |-> reg]
Unreadable   == [state |-> "torn", reg |-> Empty]

(* get_all_bins, is_active *)
Covers(pos, b) == pos.lo <= b /\ b <= pos.hi
ActiveAt(list) == {i \in 1..Len(list) : list[i].active}

FirstActive(list) ==
    CHOOSE i \in ActiveAt(list) : \A j \in ActiveAt(list) : i <= j

Least(a, b)    == IF a < b THEN a ELSE b
Greatest(a, b) == IF a > b THEN a ELSE b

(* A merge that puts the end of the range one bin too far: for the check of *)
(* the properties.                                                          *)
MergedOneTooFar(pos, lo, hi, amounts) ==
    [pos EXCEPT !.strs = [b \in Bins |-> @[b] + amounts[b]],
                !.lo = Least(@, lo),
                !.hi = Greatest(@, hi) + 1]

(* add_position on a type with an active position: it is merged into. *)
Merged(pos, lo, hi, amounts) ==
    [pos EXCEPT !.strs = [b \in Bins |-> @[b] + amounts[b]],
                !.lo = Least(@, lo),
                !.hi = Greatest(@, hi)]

Created(id, lo, hi, amounts) ==
    [id |-> id, lo |-> lo, hi |-> hi, active |-> TRUE,
     ints |-> amounts, strs |-> NoAmounts]

(* A merge that starts a second entry: for the check of the properties. *)
AddedTwice(reg, t, id, lo, hi, amounts) ==
    [reg EXCEPT ![t] = Append(@, Created(id, lo, hi, amounts))]

(* A merge that keeps the old range: for the check of the properties. *)
AddedNoWidening(reg, t, id, lo, hi, amounts) ==
    IF ActiveAt(reg[t]) = {} THEN AddedTwice(reg, t, id, lo, hi, amounts)
    ELSE [reg EXCEPT ![t][FirstActive(reg[t])].strs =
             [b \in Bins |-> @[b] + amounts[b]]]

(* A merge into the oldest entry, be it exited: for the check of the        *)
(* properties.                                                              *)
AddedToFirst(reg, t, id, lo, hi, amounts) ==
    IF reg[t] = <<>> THEN AddedTwice(reg, t, id, lo, hi, amounts)
    ELSE [reg EXCEPT ![t][1] = Merged(@, lo, hi, amounts)]

Added(reg, t, id, lo, hi, amounts) ==
    IF ActiveAt(reg[t]) = {}
    THEN [reg EXCEPT ![t] = Append(@, Created(id, lo, hi, amounts))]
    ELSE [reg EXCEPT ![t][FirstActive(reg[t])] = Merged(@, lo, hi, amounts)]

AsExited(pos) == [pos EXCEPT !.active = FALSE]

Exited(reg, t, i) == [reg EXCEPT ![t][i] = AsExited(@)]

(* A load that takes every entry for active: for the check of the           *)
(* properties.                                                              *)
RereadActive(pos) == [pos EXCEPT !.active = TRUE]

(* json.dump writes both kinds of key as strings, a string key after the    *)
(* integer one it equals, and json.load keeps the last of two equal keys.   *)
Reread(pos) ==
    [pos EXCEPT !.ints = [b \in Bins |-> IF pos.strs[b] > 0 THEN pos.strs[b] ELSE @[b]],
                !.strs = NoAmounts]

Parsed(reg) == [t \in Types |-> [i \in 1..Len(reg[t]) |-> Reread(reg[t][i])]]

(* find_positions_by_bins; the positions whose bins are all among bins      *)
FoundBy(reg, bins) ==
    {ti \in UNION {{t} \X ActiveAt(reg[t]) : t \in Types} :
        \E b \in bins : Covers(reg[ti[1]][ti[2]], b)}

EntirelyIn(reg, bins) ==
    {ti \in FoundBy(reg, bins) :
        \A b \in Bins : Covers(reg[ti[1]][ti[2]], b) => b \in bins}

-----------------------------------------------------------------------------
Idle(p) == p \in loaded /\ p \notin saving /\ todo[p] = {}

Init ==
    /\ file \in {[state |-> s, reg |-> Empty] : s \in {"absent", "foreign"}}
    /\ backup = [state |-> "absent", reg |-> Empty]
    /\ mem = [p \in Procs |-> Empty]
    /\ loaded = {}
    /\ saving = {}
    /\ todo = [p \in Procs |-> {}]
    /\ adds = 0
    /\ unsaved = {}

(* save, up to open(file, "w"): the backup is the file as it was found.     *)
StartSave(p) ==
    /\ backup' = IF file.state = "absent" THEN backup ELSE file
    /\ file' = Unreadable
    /\ saving' = saving \cup {p}

(* save, when the copy to the backup or open(file, "w") fails: the file is  *)
(* not touched, and the backup is what it was, the file, or half of it.     *)
SaveNotBegun ==
    /\ backup' \in {backup} \cup
                   (IF file.state = "absent" THEN {} ELSE {file, Unreadable})
    /\ UNCHANGED <<file, saving>>

(* The memory of p has then changed and the file has not.                   *)
SaveFailsEarly(p) ==
    /\ SaveNotBegun
    /\ unsaved' = unsaved \cup {p}

(* save, the end of json.dump.  If another process has written meanwhile,   *)
(* what is left may be one text over a longer one.                          *)
FinishSave(p) ==
    /\ p \in saving
    /\ saving' = saving \ {p}
    /\ file' \in {Written(mem[p])} \cup
                 (IF file.state = "ok" THEN {Unreadable} ELSE {})
    /\ unsaved' = unsaved \ {p}
    /\ UNCHANGED <<backup, mem, loaded, todo, adds>>

(* The write fails (a full disk), and the callers catch the exception: the  *)
(* file stays torn, memory keeps the change, the loop over the positions to      *)
(* remove is left, and a registry that was only being loaded is not kept.   *)
FailSave(p) ==
    /\ p \in saving
    /\ saving' = saving \ {p}
    /\ todo' = [todo EXCEPT ![p] = {}]
    /\ loaded' = IF mem[p] = Empty THEN loaded \ {p} ELSE loaded
    /\ unsaved' = unsaved \cap loaded'
    /\ UNCHANGED <<file, backup, mem, adds>>

(* get_registry, load: an unreadable file, or no file, or another wallet's, *)
(* is replaced by an empty registry at once.                                *)
LoadFile(p) ==
    /\ p \notin loaded
    /\ loaded' = loaded \cup {p}
    /\ IF file.state = "ok"
       THEN /\ mem' = [mem EXCEPT ![p] = Parsed(file.reg)]
            /\ UNCHANGED <<file, backup, saving>>
       ELSE /\ mem' = [mem EXCEPT ![p] = Empty]
            /\ StartSave(p)
    /\ UNCHANGED <<todo, adds, unsaved>>

(* The replacement cannot even be begun: the constructor raises and there   *)
(* is no registry in memory.                                                *)
LoadFails(p) ==
    /\ p \notin loaded
    /\ file.state # "ok"
    /\ SaveNotBegun
    /\ UNCHANGED <<mem, loaded, todo, adds, unsaved>>

(* add_position.  The amounts are the LB tokens of the bins that got some,  *)
(* or nothing when they could not be read after the add.                    *)
AddPosition(p, t, lo, hi, amounts) ==
    /\ Idle(p)
    /\ adds < MaxAdds
    /\ lo <= hi
    /\ \A b \in Bins : amounts[b] > 0 => lo <= b /\ b <= hi
    /\ adds' = adds + 1
    /\ mem' = [mem EXCEPT ![p] = Added(@, t, adds', lo, hi, amounts)]
    /\ \/ StartSave(p) /\ UNCHANGED unsaved
       \/ SaveFailsEarly(p)
    /\ UNCHANGED <<loaded, todo>>

(* _deregister_positions with the bins taken off the chain: every active    *)
(* position that holds one of them is to be marked as exited.               *)
Deregister(p, bins) ==
    /\ Idle(p)
    /\ todo' = [todo EXCEPT ![p] = FoundBy(mem[p], bins)]
    /\ UNCHANGED <<file, backup, mem, loaded, saving, adds, unsaved>>

(* reconcile with the bins that are no longer on the chain: only a position *)
(* of which nothing is left there is marked.                                *)
DropStale(p, missing) ==
    /\ Idle(p)
    /\ todo' = [todo EXCEPT ![p] = EntirelyIn(mem[p], missing)]
    /\ UNCHANGED <<file, backup, mem, loaded, saving, adds, unsaved>>

(* A removal that is not saved: for the check of the properties. *)
RemoveUnsaved(p, t, i) ==
    /\ p \in loaded
    /\ p \notin saving
    /\ <<t, i>> \in todo[p]
    /\ todo' = [todo EXCEPT ![p] = @ \ {<<t, i>>}]
    /\ mem' = [mem EXCEPT ![p] = Exited(@, t, i)]
    /\ UNCHANGED <<file, backup, loaded, saving, adds, unsaved>>

(* remove_position, once for each marked position, narrow before wide, with *)
(* a save of its own each time; a save that raises ends the loop.           *)
RemovePosition(p, t, i) ==
    /\ p \in loaded
    /\ p \notin saving
    /\ <<t, i>> \in todo[p]
    /\ \A ti \in todo[p] : t = "wide" => ti[1] = "wide"
    /\ mem' = [mem EXCEPT ![p] = Exited(@, t, i)]
    /\ \/ /\ StartSave(p)
          /\ todo' = [todo EXCEPT ![p] = @ \ {<<t, i>>}]
          /\ UNCHANGED unsaved
       \/ /\ SaveFailsEarly(p)
          /\ todo' = [todo EXCEPT ![p] = {}]
    /\ UNCHANGED <<loaded, adds>>

(* The process ends, by itself or by a crash, at any point.                 *)
Stop(p) ==
    /\ p \in loaded
    /\ loaded' = loaded \ {p}
    /\ saving' = saving \ {p}
    /\ mem' = [mem EXCEPT ![p] = Empty]
    /\ todo' = [todo EXCEPT ![p] = {}]
    /\ unsaved' = unsaved \ {p}
    /\ UNCHANGED <<file, backup, adds>>

Next ==
    \E p \in Procs :
        \/ LoadFile(p)
        \/ LoadFails(p)
        \/ \E t \in Types, lo, hi \in Bins, amounts \in Minted :
               AddPosition(p, t, lo, hi, amounts)
        \/ \E bins \in SUBSET Bins : Deregister(p, bins) \/ DropStale(p, bins)
        \/ \E ti \in todo[p] : RemovePosition(p, ti[1], ti[2])
        \/ FinishSave(p)
        \/ FailSave(p)
        \/ Stop(p)

Spec == Init /\ [][Next]_vars

-----------------------------------------------------------------------------
(* Every variable has its type. *)
TypeOK ==
    /\ file \in File
    /\ backup \in File
    /\ mem \in [Procs -> Registry]
    /\ loaded \subseteq Procs
    /\ saving \subseteq loaded
    /\ todo \in [Procs -> SUBSET (Types \X Nat)]
    /\ adds \in Nat
    /\ unsaved \subseteq loaded

(* At most one position of each type is active, in every copy of the        *)
(* registry, whichever of the processes wrote it and whatever was lost on   *)
(* the way: the bot reads the type of the position it holds from there      *)
(* ("get_wide_positions, else get_narrow_positions").                       *)
SingleActive(reg) ==
    \A t \in Types : \A i, j \in ActiveAt(reg[t]) : i = j

OneActivePerType ==
    /\ SingleActive(file.reg)
    /\ SingleActive(backup.reg)
    /\ \A p \in Procs : SingleActive(mem[p])

(* The range of a position covers every bin it holds tokens in, through     *)
(* merges, saves and reloads: find_positions_by_bins, which decides what a  *)
(* removal deregisters, sees the range alone.                               *)
AmountsInRange(pos) ==
    \A b \in Bins : pos.ints[b] > 0 \/ pos.strs[b] > 0 => Covers(pos, b)

RangesCover(reg) ==
    \A t \in Types : \A i \in 1..Len(reg[t]) : AmountsInRange(reg[t][i])

RangesCoverAmounts ==
    /\ RangesCover(file.reg)
    /\ \A p \in Procs : RangesCover(mem[p])

(* new is a later state of the registry old: no entry is taken out or       *)
(* moved, an exited one is as it was, and an active one keeps its name and  *)
(* covers what it covered.                                                  *)
KeepsHistory(old, new) ==
    \A t \in Types :
        /\ Len(old[t]) <= Len(new[t])
        /\ \A i \in 1..Len(old[t]) :
               LET was == old[t][i]  is == new[t][i]
               IN  /\ is.id = was.id
                   /\ is.lo <= was.lo /\ was.hi <= is.hi
                   /\ ~was.active => is = was

(* Whenever the file can be read and no operation is under way, it is a     *)
(* state the memory of the process was in, and the very state of it unless  *)
(* a save has failed since the last one that ended: what a restart reads is *)
(* never anything the process did not have, and never older than that.      *)
FileFollowsMemory ==
    \A p \in Procs : Idle(p) /\ file.state = "ok" =>
        IF p \in unsaved THEN KeepsHistory(Parsed(file.reg), Parsed(mem[p]))
                          ELSE Parsed(file.reg) = Parsed(mem[p])

(* The list of a type in a process's memory is a history: entries are never *)
(* taken out or moved, an exited one is never touched again, and an active  *)
(* one keeps its name and never shrinks.                                    *)
MemoryIsHistory ==
    [][\A p \in loaded \cap loaded' : KeepsHistory(mem[p], mem'[p])]_vars

(* A save never brings back to life a position that the file it replaces    *)
(* (now in the backup) already had as exited.                               *)
ExitedStaysExited ==
    [][file.state = "torn" /\ file'.state = "ok" /\ backup.state = "ok" =>
          \A t \in Types : \A i \in 1..Len(backup.reg[t]) :
              LET was == backup.reg[t][i]
              IN  ~was.active =>
                     ~\E j \in 1..Len(file'.reg[t]) :
                         file'.reg[t][j].id = was.id /\ file'.reg[t][j].active]_vars

(* Loading keeps the LB token amount of every bin: bin_amounts accumulate   *)
(* per bin, over merges and restarts.                                       *)
LoadKeepsAmounts ==
    [][\A p \in loaded' \ loaded : file.state = "ok" =>
          \A t \in Types : \A i \in 1..Len(file.reg[t]) : \A b \in Bins :
              mem'[p][t][i].ints[b] = file.reg[t][i].ints[b] + file.reg[t][i].strs[b]]_vars
=============================================================================
