-------------------------- MODULE LPRegistryProofs --------------------------
(***************************************************************************)
(* What holds of the registry for any number of processes, any set of bins *)
(* and any number of adds: every process may stop at any point, saves may  *)
(* fail or overwrite one another, and files may be lost.  In the second    *)
(* part, what holds where one process has the file for itself: theorems    *)
(* with the hypothesis OneProcess, without which they are false.           *)
(***************************************************************************)
EXTENDS RegistryBook, TLAPS

USE DEF Types

-----------------------------------------------------------------------------
(* Adding to a registry, marking an entry as exited and reading a registry  *)
(* back from JSON each give a registry.                                     *)

LEMMA CreatedType ==
    ASSUME NEW id \in Nat, NEW lo \in Bins, NEW hi \in Bins, NEW amounts \in Amounts
    PROVE  Created(id, lo, hi, amounts) \in Position
BY BinsAssumption DEF Created, Position, Amounts, NoAmounts

LEMMA MergedType ==
    ASSUME NEW pos \in Position, NEW lo \in Bins, NEW hi \in Bins, NEW amounts \in Amounts
    PROVE  Merged(pos, lo, hi, amounts) \in Position
<1>1. [b \in Bins |-> pos.strs[b] + amounts[b]] \in Amounts
  BY DEF Position, Amounts
<1>2. Least(pos.lo, lo) \in Bins /\ Greatest(pos.hi, hi) \in Bins
  BY DEF Position, Least, Greatest
<1> QED
  BY <1>1, <1>2 DEF Merged, Position

LEMMA RereadType ==
    ASSUME NEW pos \in Position
    PROVE  Reread(pos) \in Position
<1>1. [b \in Bins |-> IF pos.strs[b] > 0 THEN pos.strs[b] ELSE pos.ints[b]] \in Amounts
  BY DEF Position, Amounts
<1>2. NoAmounts \in Amounts
  BY DEF NoAmounts, Amounts
<1> QED
  BY <1>1, <1>2 DEF Reread, Position

LEMMA AddedType ==
    ASSUME NEW reg \in Registry, NEW t \in Types, NEW id \in Nat,
           NEW lo \in Bins, NEW hi \in Bins, NEW amounts \in Amounts
    PROVE  Added(reg, t, id, lo, hi, amounts) \in Registry
<1> DEFINE new == Created(id, lo, hi, amounts)
           k == FirstActive(reg[t])
           merged == Merged(reg[t][k], lo, hi, amounts)
<1>1. new \in Position
  BY CreatedType
<1>2. Append(reg[t], new) \in Seq(Position)
  BY <1>1 DEF Registry
<1>3. [reg[t] EXCEPT ![k] = merged] \in Seq(Position)
  <2>1. CASE k \in 1..Len(reg[t])
    <3>1. merged \in Position
      BY <2>1, MergedType DEF Registry
    <3> QED BY <2>1, <3>1 DEF Registry
  <2>2. CASE k \notin 1..Len(reg[t])
    <3>1. [reg[t] EXCEPT ![k] = merged] = reg[t]
      BY <2>2 DEF Registry
    <3> QED BY <3>1 DEF Registry
  <2> QED BY <2>1, <2>2
<1> HIDE DEF new, k, merged
<1>4. CASE ActiveAt(reg[t]) = {}
  BY <1>2, <1>4 DEF Added, Registry, new
<1>5. CASE ActiveAt(reg[t]) # {}
  BY <1>3, <1>5 DEF Added, Registry, k, merged
<1> QED BY <1>4, <1>5

LEMMA ExitedType ==
    ASSUME NEW reg \in Registry, NEW t \in Types, NEW i \in Nat
    PROVE  Exited(reg, t, i) \in Registry
<1> DEFINE out == AsExited(reg[t][i])
<1>1. [reg[t] EXCEPT ![i] = out] \in Seq(Position)
  <2>1. CASE i \in 1..Len(reg[t])
    <3>1. reg[t][i] \in Position
      BY <2>1 DEF Registry
    <3>2. out \in Position
      BY <3>1 DEF AsExited, Position
    <3> HIDE DEF out
    <3> QED BY <2>1, <3>2 DEF Registry
  <2>2. CASE i \notin 1..Len(reg[t])
    <3> HIDE DEF out
    <3>1. [reg[t] EXCEPT ![i] = out] = reg[t]
      BY <2>2 DEF Registry
    <3> QED BY <3>1 DEF Registry
  <2> QED BY <2>1, <2>2
<1>2. Exited(reg, t, i) = [reg EXCEPT ![t] = [reg[t] EXCEPT ![i] = out]]
  BY DEF Exited
<1> QED BY <1>1, <1>2 DEF Registry

LEMMA ParsedType ==
    ASSUME NEW reg \in Registry
    PROVE  Parsed(reg) \in Registry
<1> SUFFICES ASSUME NEW t \in Types
             PROVE  [i \in 1..Len(reg[t]) |-> Reread(reg[t][i])] \in Seq(Position)
  BY DEF Parsed, Registry
<1>1. reg[t] \in Seq(Position) /\ Len(reg[t]) \in Nat
  BY DEF Registry
<1>2. \A i \in 1..Len(reg[t]) : Reread(reg[t][i]) \in Position
  BY <1>1, RereadType
<1> QED BY <1>1, <1>2

LEMMA EmptyType == Empty \in Registry
BY DEF Empty, Registry

LEMMA FoundByType ==
    ASSUME NEW reg \in Registry, NEW bins
    PROVE  /\ FoundBy(reg, bins) \in SUBSET (Types \X Nat)
           /\ EntirelyIn(reg, bins) \in SUBSET (Types \X Nat)
<1>1. \A t \in Types : ActiveAt(reg[t]) \subseteq Nat
  BY DEF ActiveAt, Registry
<1>2. FoundBy(reg, bins) \subseteq Types \X Nat
  BY <1>1 DEF FoundBy
<1> QED BY <1>2 DEF EntirelyIn

-----------------------------------------------------------------------------
(* Saving touches the two files and nothing else. *)
LEMMA StartSaveType ==
    ASSUME NEW p \in Procs, file \in File, backup \in File, StartSave(p)
    PROVE  /\ file' \in File
           /\ backup' \in File
           /\ saving' = saving \cup {p}
BY EmptyType DEF StartSave, Unreadable, File

LEMMA SaveNotBegunType ==
    ASSUME file \in File, backup \in File, SaveNotBegun
    PROVE  file' = file /\ backup' \in File /\ saving' = saving
BY EmptyType DEF SaveNotBegun, Unreadable, File

(* An operation whose save is begun or fails before it is.                  *)
LEMMA SaveType ==
    ASSUME NEW p \in loaded, NEW q \in Procs, p = q, TypeOK,
           (StartSave(p) /\ UNCHANGED unsaved) \/ SaveFailsEarly(p)
    PROVE  /\ file' \in File
           /\ backup' \in File
           /\ saving' \subseteq loaded
           /\ unsaved' \subseteq loaded
<1>1. CASE StartSave(p) /\ UNCHANGED unsaved
  BY <1>1, StartSaveType DEF TypeOK
<1>2. CASE SaveFailsEarly(p)
  BY <1>2, SaveNotBegunType DEF SaveFailsEarly, TypeOK
<1> QED BY <1>1, <1>2

(* Every variable always has its type: in particular no loss, failure or    *)
(* overwriting of the file puts anything but a registry into a memory.      *)
THEOREM TypeCorrect == Spec => []TypeOK
<1>1. Init => TypeOK
  BY EmptyType DEF Init, TypeOK, File
<1>2. TypeOK /\ [Next]_vars => TypeOK'
  <2> SUFFICES ASSUME TypeOK, [Next]_vars PROVE TypeOK'
    OBVIOUS
  <2> USE DEF TypeOK
  <2>1. ASSUME NEW p \in Procs, LoadFile(p) PROVE TypeOK'
    <3>1. CASE file.state = "ok"
      <4>1. Parsed(file.reg) \in Registry
        BY ParsedType DEF File
      <4> QED BY <2>1, <3>1, <4>1 DEF LoadFile
    <3>2. CASE file.state # "ok"
      <4>1. StartSave(p)
        BY <2>1, <3>2 DEF LoadFile
      <4>2. file' \in File /\ backup' \in File /\ saving' = saving \cup {p}
        BY <4>1, StartSaveType
      <4> QED BY <2>1, <3>2, <4>2, EmptyType DEF LoadFile
    <3> QED BY <3>1, <3>2
  <2>2. ASSUME NEW p \in Procs, NEW t \in Types, NEW lo \in Bins, NEW hi \in Bins,
               NEW amounts \in Minted, AddPosition(p, t, lo, hi, amounts)
        PROVE  TypeOK'
    <3>1. file' \in File /\ backup' \in File /\ saving' \subseteq loaded /\ unsaved' \subseteq loaded
      BY <2>2, SaveType DEF AddPosition, Idle
    <3>2. amounts \in Amounts /\ adds' \in Nat /\ p \in loaded
      BY <2>2, MintedAssumption DEF AddPosition, Amounts, Idle
    <3>3. Added(mem[p], t, adds', lo, hi, amounts) \in Registry
      BY <3>2, AddedType
    <3> QED BY <2>2, <3>1, <3>2, <3>3 DEF AddPosition
  <2>3. ASSUME NEW p \in Procs, NEW bins, Deregister(p, bins) \/ DropStale(p, bins)
        PROVE  TypeOK'
    <3>1. FoundBy(mem[p], bins) \in SUBSET (Types \X Nat)
      BY FoundByType
    <3>2. EntirelyIn(mem[p], bins) \in SUBSET (Types \X Nat)
      BY FoundByType
    <3> QED BY <2>3, <3>1, <3>2 DEF Deregister, DropStale
  <2>4. ASSUME NEW p \in Procs, NEW ti \in todo[p], RemovePosition(p, ti[1], ti[2])
        PROVE  TypeOK'
    <3>1. file' \in File /\ backup' \in File /\ saving' \subseteq loaded /\ unsaved' \subseteq loaded
      BY <2>4, SaveType DEF RemovePosition
    <3>2. ti[1] \in Types /\ ti[2] \in Nat
      OBVIOUS
    <3>3. Exited(mem[p], ti[1], ti[2]) \in Registry
      BY <3>2, ExitedType
    <3> QED BY <2>4, <3>1, <3>3 DEF RemovePosition
  <2>5. ASSUME NEW p \in Procs, FinishSave(p) PROVE TypeOK'
    <3>1. file' \in File
      BY <2>5, EmptyType DEF FinishSave, Written, Unreadable, File
    <3> QED BY <2>5, <3>1 DEF FinishSave
  <2>6. ASSUME NEW p \in Procs, FailSave(p) PROVE TypeOK'
    BY <2>6, EmptyType DEF FailSave
  <2>7. ASSUME NEW p \in Procs, Stop(p) PROVE TypeOK'
    BY <2>7, EmptyType DEF Stop
  <2>8. ASSUME NEW p \in Procs, LoadFails(p) PROVE TypeOK'
    BY <2>8, SaveNotBegunType DEF LoadFails
  <2>9. CASE UNCHANGED vars
    BY <2>9 DEF vars
  <2> QED BY <2>1, <2>2, <2>3, <2>4, <2>5, <2>6, <2>7, <2>8, <2>9 DEF Next
<1> QED BY <1>1, <1>2, PTL DEF Spec

-----------------------------------------------------------------------------
(* What each operation on a registry does to the entries that are active.   *)

LEMMA AppendedActive ==
    ASSUME NEW list \in Seq(Position), NEW pos \in Position, pos.active
    PROVE  ActiveAt(Append(list, pos)) = ActiveAt(list) \cup {Len(list) + 1}
BY DEF ActiveAt, Position

LEMMA FirstActiveIsActive ==
    ASSUME NEW reg \in Registry, SingleActive(reg), NEW t \in Types,
           ActiveAt(reg[t]) # {}
    PROVE  /\ FirstActive(reg[t]) \in ActiveAt(reg[t])
           /\ FirstActive(reg[t]) \in 1..Len(reg[t])
<1>1. PICK i \in ActiveAt(reg[t]) : \A j \in ActiveAt(reg[t]) : i = j
  BY DEF SingleActive
<1>2. i \in Nat
  BY DEF ActiveAt, Registry
<1>3. \A j \in ActiveAt(reg[t]) : i <= j
  BY <1>1, <1>2
<1>4. FirstActive(reg[t]) \in ActiveAt(reg[t])
  BY <1>3 DEF FirstActive
<1> QED BY <1>4 DEF ActiveAt

(* A merge changes one entry, the active one, which stays active. *)
LEMMA MergedList ==
    ASSUME NEW reg \in Registry, NEW t \in Types, NEW id \in Nat,
           NEW lo \in Bins, NEW hi \in Bins, NEW amounts \in Amounts,
           SingleActive(reg), ActiveAt(reg[t]) # {}
    PROVE  Added(reg, t, id, lo, hi, amounts)[t] =
              [reg[t] EXCEPT ![FirstActive(reg[t])] =
                   Merged(reg[t][FirstActive(reg[t])], lo, hi, amounts)]
BY DEF Added, Registry

LEMMA MergeKeepsActive ==
    ASSUME NEW list \in Seq(Position), NEW k \in 1..Len(list),
           NEW lo \in Bins, NEW hi \in Bins, NEW amounts \in Amounts
    PROVE  ActiveAt([list EXCEPT ![k] = Merged(list[k], lo, hi, amounts)]) =
           ActiveAt(list)
<1> DEFINE merged == Merged(list[k], lo, hi, amounts)
           new == [list EXCEPT ![k] = merged]
<1>1. merged.active = list[k].active
  <2>1. list[k] \in Position
    OBVIOUS
  <2> QED BY <2>1 DEF Merged, Position
<1> HIDE DEF merged
<1>2. Len(new) = Len(list)
  OBVIOUS
<1>3. \A i \in 1..Len(list) : new[i].active = list[i].active
  BY <1>1
<1> QED BY <1>2, <1>3 DEF ActiveAt, merged

LEMMA AddedElsewhere ==
    ASSUME NEW reg \in Registry, NEW t \in Types, NEW id, NEW lo, NEW hi, NEW amounts,
           NEW u \in Types, u # t
    PROVE  Added(reg, t, id, lo, hi, amounts)[u] = reg[u]
BY DEF Added, Registry

LEMMA AddedSingle ==
    ASSUME NEW reg \in Registry, NEW t \in Types, NEW id \in Nat,
           NEW lo \in Bins, NEW hi \in Bins, NEW amounts \in Amounts,
           SingleActive(reg)
    PROVE  SingleActive(Added(reg, t, id, lo, hi, amounts))
<1> DEFINE new == Added(reg, t, id, lo, hi, amounts)
<1> SUFFICES ASSUME NEW u \in Types, NEW i \in ActiveAt(new[u]), NEW j \in ActiveAt(new[u])
             PROVE  i = j
  BY DEF SingleActive
<1>1. CASE u # t
  BY <1>1, AddedElsewhere DEF SingleActive
<1>2. CASE u = t /\ ActiveAt(reg[t]) = {}
  <2> DEFINE pos == Created(id, lo, hi, amounts)
  <2>1. pos \in Position /\ pos.active
    BY CreatedType DEF Created
  <2>2. new[t] = Append(reg[t], pos)
    BY <1>2 DEF Added, Registry
  <2>3. ActiveAt(new[t]) = {Len(reg[t]) + 1}
    BY <1>2, <2>1, <2>2, AppendedActive DEF Registry
  <2> QED BY <1>2, <2>3
<1>3. CASE u = t /\ ActiveAt(reg[t]) # {}
  <2> DEFINE k == FirstActive(reg[t])
  <2>1. k \in 1..Len(reg[t]) /\ reg[t] \in Seq(Position)
    BY <1>3, FirstActiveIsActive DEF Registry
  <2>2. new[t] = [reg[t] EXCEPT ![k] = Merged(reg[t][k], lo, hi, amounts)]
    BY <1>3, MergedList
  <2> HIDE DEF k, new
  <2>3. ActiveAt(new[t]) = ActiveAt(reg[t])
    BY <2>1, <2>2, MergeKeepsActive
  <2> QED BY <1>3, <2>3 DEF SingleActive
<1> QED BY <1>1, <1>2, <1>3

LEMMA ExitedEntry ==
    ASSUME NEW reg \in Registry, NEW t \in Types, NEW i \in Nat
    PROVE  /\ \A u \in Types : Len(Exited(reg, t, i)[u]) = Len(reg[u])
           /\ \A u \in Types : \A j \in 1..Len(reg[u]) :
                 u # t \/ j # i => Exited(reg, t, i)[u][j] = reg[u][j]
           /\ i \in 1..Len(reg[t]) =>
                 Exited(reg, t, i)[t][i] = AsExited(reg[t][i])
<1> DEFINE out == AsExited(reg[t][i])
<1>1. Exited(reg, t, i) = [reg EXCEPT ![t] = [reg[t] EXCEPT ![i] = out]]
  BY DEF Exited
<1> HIDE DEF out
<1>2. \A u \in Types : reg[u] \in Seq(Position)
  BY DEF Registry
<1>3. \A u \in Types : Exited(reg, t, i)[u] =
                         IF u = t THEN [reg[u] EXCEPT ![i] = out] ELSE reg[u]
  BY <1>1 DEF Registry
<1>4. Len([reg[t] EXCEPT ![i] = out]) = Len(reg[t])
  BY <1>2
<1>5. \A j \in 1..Len(reg[t]) : [reg[t] EXCEPT ![i] = out][j] =
                                 IF j = i THEN out ELSE reg[t][j]
  BY <1>2
<1> QED BY <1>3, <1>4, <1>5 DEF out

LEMMA ExitedSingle ==
    ASSUME NEW reg \in Registry, NEW t \in Types, NEW i \in Nat, SingleActive(reg)
    PROVE  SingleActive(Exited(reg, t, i))
<1> DEFINE new == Exited(reg, t, i)
<1>1. ASSUME NEW u \in Types, NEW j \in ActiveAt(new[u])
      PROVE  j \in ActiveAt(reg[u])
  <2>1. j \in 1..Len(reg[u]) /\ new[u][j].active
    BY <1>1, ExitedEntry DEF ActiveAt
  <2>2. CASE u = t /\ j = i
    <3>1. reg[u][j] \in Position
      BY <2>1 DEF Registry
    <3>2. new[u][j] = AsExited(reg[u][j])
      BY <2>1, <2>2, ExitedEntry
    <3> QED BY <2>1, <3>1, <3>2 DEF AsExited, Position
  <2>3. CASE u # t \/ j # i
    <3>1. new[u][j] = reg[u][j]
      BY <2>1, <2>3, ExitedEntry
    <3> QED BY <2>1, <3>1 DEF ActiveAt
  <2> QED BY <2>2, <2>3
<1> QED BY <1>1 DEF SingleActive

LEMMA ParsedEntry ==
    ASSUME NEW reg \in Registry
    PROVE  /\ \A t \in Types : Len(Parsed(reg)[t]) = Len(reg[t])
           /\ \A t \in Types : \A i \in 1..Len(reg[t]) :
                 Parsed(reg)[t][i] = Reread(reg[t][i])
<1>1. \A t \in Types : Parsed(reg)[t] = [i \in 1..Len(reg[t]) |-> Reread(reg[t][i])]
  BY DEF Parsed
<1>2. \A t \in Types : Len(reg[t]) \in Nat
  BY DEF Registry
<1> QED BY <1>1, <1>2

LEMMA ParsedActive ==
    ASSUME NEW reg \in Registry, NEW t \in Types
    PROVE  ActiveAt(Parsed(reg)[t]) = ActiveAt(reg[t])
<1>1. \A i \in 1..Len(reg[t]) : Reread(reg[t][i]).active = reg[t][i].active
  BY DEF Reread, Registry, Position
<1> QED BY <1>1, ParsedEntry DEF ActiveAt

LEMMA EmptySingle == SingleActive(Empty)
BY DEF SingleActive, Empty, ActiveAt

-----------------------------------------------------------------------------
(* At most one active position of each type, in the file, in its backup and *)
(* in every process.  The invariant is inductive once every variable has    *)
(* its type: what a file holds was written from a memory, and what a memory *)
(* holds was read from a file or changed by the operations above.           *)
THEOREM OneActive == Spec => []OneActivePerType
<1> DEFINE Inv == TypeOK /\ OneActivePerType
<1>1. Init => Inv
  BY EmptySingle, EmptyType DEF Init, TypeOK, File, OneActivePerType
<1>2. Inv /\ [Next]_vars /\ TypeOK' => OneActivePerType'
  <2> SUFFICES ASSUME TypeOK, OneActivePerType, [Next]_vars, TypeOK'
               PROVE  OneActivePerType'
    OBVIOUS
  <2> USE DEF OneActivePerType
  <2>s. ASSUME NEW p \in Procs, StartSave(p) \/ SaveNotBegun
        PROVE  SingleActive(file'.reg) /\ SingleActive(backup'.reg)
    BY <2>s, EmptySingle DEF StartSave, SaveNotBegun, Unreadable
  <2>1. ASSUME NEW p \in Procs, LoadFile(p) PROVE OneActivePerType'
    <3>1. CASE file.state = "ok"
      <4>1. file.reg \in Registry
        BY DEF TypeOK, File
      <4>2. SingleActive(Parsed(file.reg))
        BY <4>1, ParsedActive DEF SingleActive
      <4>3. mem' = [mem EXCEPT ![p] = Parsed(file.reg)]
        BY <2>1, <3>1 DEF LoadFile
      <4> QED BY <2>1, <3>1, <4>2, <4>3 DEF LoadFile, TypeOK
    <3>2. CASE file.state # "ok"
      <4>1. mem' = [mem EXCEPT ![p] = Empty] /\ StartSave(p)
        BY <2>1, <3>2 DEF LoadFile
      <4> QED BY <2>s, <4>1, EmptySingle DEF TypeOK
    <3> QED BY <3>1, <3>2
  <2>2. ASSUME NEW p \in Procs, NEW t \in Types, NEW lo \in Bins, NEW hi \in Bins,
               NEW amounts \in Minted, AddPosition(p, t, lo, hi, amounts)
        PROVE  OneActivePerType'
    <3>1. amounts \in Amounts /\ adds' \in Nat /\ mem[p] \in Registry
      BY <2>2, MintedAssumption DEF AddPosition, Amounts, TypeOK
    <3>2. SingleActive(Added(mem[p], t, adds', lo, hi, amounts))
      BY <3>1, AddedSingle
    <3> QED BY <2>2, <2>s, <3>2 DEF AddPosition, SaveFailsEarly, TypeOK
  <2>3. ASSUME NEW p \in Procs, NEW bins, Deregister(p, bins) \/ DropStale(p, bins)
        PROVE  OneActivePerType'
    BY <2>3 DEF Deregister, DropStale
  <2>4. ASSUME NEW p \in Procs, NEW ti \in todo[p], RemovePosition(p, ti[1], ti[2])
        PROVE  OneActivePerType'
    <3>1. ti[1] \in Types /\ ti[2] \in Nat /\ mem[p] \in Registry
      BY DEF TypeOK
    <3>2. SingleActive(Exited(mem[p], ti[1], ti[2]))
      BY <3>1, ExitedSingle
    <3> QED BY <2>4, <2>s, <3>2 DEF RemovePosition, SaveFailsEarly, TypeOK
  <2>5. ASSUME NEW p \in Procs, FinishSave(p) PROVE OneActivePerType'
    BY <2>5, EmptySingle DEF FinishSave, Written, Unreadable
  <2>6. ASSUME NEW p \in Procs, FailSave(p) PROVE OneActivePerType'
    BY <2>6 DEF FailSave
  <2>7. ASSUME NEW p \in Procs, Stop(p) PROVE OneActivePerType'
    BY <2>7, EmptySingle DEF Stop, TypeOK
  <2>8. ASSUME NEW p \in Procs, LoadFails(p) PROVE OneActivePerType'
    BY <2>8, <2>s DEF LoadFails
  <2>9. CASE UNCHANGED vars
    BY <2>9 DEF vars
  <2> QED BY <2>1, <2>2, <2>3, <2>4, <2>5, <2>6, <2>7, <2>8, <2>9 DEF Next
<1> QED BY <1>1, <1>2, TypeCorrect, PTL DEF Spec

-----------------------------------------------------------------------------
(* What each operation on a registry does to the ranges and the amounts.    *)

LEMMA CreatedInRange ==
    ASSUME NEW id, NEW lo \in Bins, NEW hi \in Bins, NEW amounts \in Amounts,
           \A b \in Bins : amounts[b] > 0 => lo <= b /\ b <= hi
    PROVE  AmountsInRange(Created(id, lo, hi, amounts))
BY DEF AmountsInRange, Covers, Created, NoAmounts

LEMMA MergedInRange ==
    ASSUME NEW pos \in Position, NEW lo \in Bins, NEW hi \in Bins, NEW amounts \in Amounts,
           \A b \in Bins : amounts[b] > 0 => lo <= b /\ b <= hi,
           AmountsInRange(pos)
    PROVE  AmountsInRange(Merged(pos, lo, hi, amounts))
<1> DEFINE new == Merged(pos, lo, hi, amounts)
<1> SUFFICES ASSUME NEW b \in Bins, new.ints[b] > 0 \/ new.strs[b] > 0
             PROVE  new.lo <= b /\ b <= new.hi
  BY DEF AmountsInRange, Covers
<1>1. pos.lo \in Nat /\ pos.hi \in Nat /\ lo \in Nat /\ hi \in Nat /\ b \in Nat
  BY BinsAssumption DEF Position
<1>2. pos.ints[b] \in Nat /\ pos.strs[b] \in Nat /\ amounts[b] \in Nat
  BY DEF Position, Amounts
<1>3. new.ints = pos.ints /\ new.strs[b] = pos.strs[b] + amounts[b]
  BY DEF Merged, Position
<1>4. new.lo = Least(pos.lo, lo) /\ new.hi = Greatest(pos.hi, hi)
  BY DEF Merged, Position
<1>5. (pos.lo <= b /\ b <= pos.hi) \/ (lo <= b /\ b <= hi)
  BY <1>2, <1>3 DEF AmountsInRange, Covers
<1> QED BY <1>1, <1>4, <1>5 DEF Least, Greatest

LEMMA RereadInRange ==
    ASSUME NEW pos \in Position, AmountsInRange(pos)
    PROVE  AmountsInRange(Reread(pos))
<1>1. /\ Reread(pos).lo = pos.lo
      /\ Reread(pos).hi = pos.hi
      /\ Reread(pos).strs = NoAmounts
      /\ \A b \in Bins : Reread(pos).ints[b] = IF pos.strs[b] > 0 THEN pos.strs[b]
                                                                 ELSE pos.ints[b]
  BY DEF Reread, Position
<1> QED BY <1>1 DEF AmountsInRange, Covers, NoAmounts

LEMMA AddedInRange ==
    ASSUME NEW reg \in Registry, NEW t \in Types, NEW id \in Nat,
           NEW lo \in Bins, NEW hi \in Bins, NEW amounts \in Amounts,
           \A b \in Bins : amounts[b] > 0 => lo <= b /\ b <= hi,
           SingleActive(reg), RangesCover(reg)
    PROVE  RangesCover(Added(reg, t, id, lo, hi, amounts))
<1> DEFINE new == Added(reg, t, id, lo, hi, amounts)
<1> SUFFICES ASSUME NEW u \in Types, NEW i \in 1..Len(new[u])
             PROVE  AmountsInRange(new[u][i])
  BY DEF RangesCover
<1>1. CASE u # t
  BY <1>1, AddedElsewhere DEF RangesCover
<1>2. CASE u = t /\ ActiveAt(reg[t]) = {}
  <2> DEFINE pos == Created(id, lo, hi, amounts)
  <2>1. AmountsInRange(pos) /\ pos \in Position
    BY CreatedInRange, CreatedType
  <2>2. new[t] = Append(reg[t], pos) /\ reg[t] \in Seq(Position)
    BY <1>2 DEF Added, Registry
  <2> HIDE DEF pos, new
  <2>3. CASE i = Len(reg[t]) + 1
    BY <1>2, <2>1, <2>2, <2>3
  <2>4. CASE i \in 1..Len(reg[t])
    BY <1>2, <2>2, <2>4 DEF RangesCover
  <2>5. i \in 1..(Len(reg[t]) + 1)
    BY <1>2, <2>1, <2>2
  <2> QED BY <2>2, <2>3, <2>4, <2>5
<1>3. CASE u = t /\ ActiveAt(reg[t]) # {}
  <2> DEFINE k == FirstActive(reg[t])
             merged == Merged(reg[t][k], lo, hi, amounts)
  <2>1. k \in 1..Len(reg[t]) /\ reg[t] \in Seq(Position)
    BY <1>3, FirstActiveIsActive DEF Registry
  <2>2. new[t] = [reg[t] EXCEPT ![k] = merged]
    BY <1>3 DEF Added, Registry
  <2>3. AmountsInRange(merged)
    <3>1. reg[t][k] \in Position /\ AmountsInRange(reg[t][k])
      BY <2>1 DEF RangesCover
    <3> QED BY <3>1, MergedInRange
  <2> HIDE DEF k, new, merged
  <2>4. i \in 1..Len(reg[t]) /\ new[t][i] = IF i = k THEN merged ELSE reg[t][i]
    BY <1>3, <2>1, <2>2
  <2> QED BY <1>3, <2>3, <2>4 DEF RangesCover
<1> QED BY <1>1, <1>2, <1>3

LEMMA ExitedInRange ==
    ASSUME NEW reg \in Registry, NEW t \in Types, NEW i \in Nat, RangesCover(reg)
    PROVE  RangesCover(Exited(reg, t, i))
<1> DEFINE new == Exited(reg, t, i)
<1> SUFFICES ASSUME NEW u \in Types, NEW j \in 1..Len(new[u])
             PROVE  AmountsInRange(new[u][j])
  BY DEF RangesCover
<1>1. j \in 1..Len(reg[u])
  BY ExitedEntry
<1>2. reg[u][j] \in Position /\ AmountsInRange(reg[u][j])
  BY <1>1 DEF RangesCover, Registry
<1>3. CASE u # t \/ j # i
  <2>1. new[u][j] = reg[u][j]
    BY <1>1, <1>3, ExitedEntry
  <2> QED
    BY ONLY <1>2, <2>1
<1>4. CASE u = t /\ j = i
  <2>1. new[u][j] = AsExited(reg[u][j])
    BY <1>1, <1>4, ExitedEntry
  <2> QED BY <1>2, <2>1 DEF AsExited, AmountsInRange, Covers, Position
<1> QED BY <1>3, <1>4

LEMMA ParsedInRange ==
    ASSUME NEW reg \in Registry, RangesCover(reg)
    PROVE  RangesCover(Parsed(reg))
<1> SUFFICES ASSUME NEW t \in Types, NEW i \in 1..Len(reg[t])
             PROVE  AmountsInRange(Parsed(reg)[t][i])
  BY ParsedEntry DEF RangesCover
<1>1. reg[t][i] \in Position /\ AmountsInRange(reg[t][i])
  BY DEF RangesCover, Registry
<1>2. AmountsInRange(Reread(reg[t][i]))
  BY <1>1, RereadInRange
<1> QED BY <1>2, ParsedEntry

LEMMA EmptyInRange == RangesCover(Empty)
BY DEF RangesCover, Empty

(* No token lies outside the range of its position, in the file and in      *)
(* every process: merging widens the range to what it brings, and reading   *)
(* back loses amounts but never the range.                                  *)
THEOREM RangesCoverAlways == Spec => []RangesCoverAmounts
<1>1. Init => RangesCoverAmounts
  BY EmptyInRange DEF Init, RangesCoverAmounts
<1>2. TypeOK /\ OneActivePerType /\ RangesCoverAmounts /\ [Next]_vars => RangesCoverAmounts'
  <2> SUFFICES ASSUME TypeOK, OneActivePerType, RangesCoverAmounts, [Next]_vars
               PROVE  RangesCoverAmounts'
    OBVIOUS
  <2> USE DEF RangesCoverAmounts
  <2>s. ASSUME NEW p \in Procs, StartSave(p) \/ SaveNotBegun PROVE RangesCover(file'.reg)
    BY <2>s, EmptyInRange DEF StartSave, SaveNotBegun, Unreadable
  <2>1. ASSUME NEW p \in Procs, LoadFile(p) PROVE RangesCoverAmounts'
    <3>1. CASE file.state = "ok"
      <4>1. file.reg \in Registry
        BY DEF TypeOK, File
      <4>2. RangesCover(Parsed(file.reg))
        BY <4>1, ParsedInRange
      <4>3. mem' = [mem EXCEPT ![p] = Parsed(file.reg)] /\ file' = file
        BY <2>1, <3>1 DEF LoadFile
      <4> QED BY <4>2, <4>3 DEF TypeOK
    <3>2. CASE file.state # "ok"
      <4>1. mem' = [mem EXCEPT ![p] = Empty] /\ StartSave(p)
        BY <2>1, <3>2 DEF LoadFile
      <4> QED BY <2>s, <4>1, EmptyInRange DEF TypeOK
    <3> QED BY <3>1, <3>2
  <2>2. ASSUME NEW p \in Procs, NEW t \in Types, NEW lo \in Bins, NEW hi \in Bins,
               NEW amounts \in Minted, AddPosition(p, t, lo, hi, amounts)
        PROVE  RangesCoverAmounts'
    <3>1. amounts \in Amounts /\ adds' \in Nat /\ mem[p] \in Registry /\ SingleActive(mem[p])
      BY <2>2, MintedAssumption DEF AddPosition, Amounts, TypeOK, OneActivePerType
    <3>2. \A b \in Bins : amounts[b] > 0 => lo <= b /\ b <= hi
      BY <2>2 DEF AddPosition
    <3>3. RangesCover(Added(mem[p], t, adds', lo, hi, amounts))
      BY <3>1, <3>2, AddedInRange
    <3> QED BY <2>2, <2>s, <3>3 DEF AddPosition, SaveFailsEarly, TypeOK
  <2>3. ASSUME NEW p \in Procs, NEW bins, Deregister(p, bins) \/ DropStale(p, bins)
        PROVE  RangesCoverAmounts'
    BY <2>3 DEF Deregister, DropStale
  <2>4. ASSUME NEW p \in Procs, NEW ti \in todo[p], RemovePosition(p, ti[1], ti[2])
        PROVE  RangesCoverAmounts'
    <3>1. ti[1] \in Types /\ ti[2] \in Nat /\ mem[p] \in Registry
      BY DEF TypeOK
    <3>2. RangesCover(Exited(mem[p], ti[1], ti[2]))
      BY <3>1, ExitedInRange
    <3> QED BY <2>4, <2>s, <3>2 DEF RemovePosition, SaveFailsEarly, TypeOK
  <2>5. ASSUME NEW p \in Procs, FinishSave(p) PROVE RangesCoverAmounts'
    BY <2>5, EmptyInRange DEF FinishSave, Written, Unreadable
  <2>6. ASSUME NEW p \in Procs, FailSave(p) PROVE RangesCoverAmounts'
    BY <2>6 DEF FailSave
  <2>7. ASSUME NEW p \in Procs, Stop(p) PROVE RangesCoverAmounts'
    BY <2>7, EmptyInRange DEF Stop, TypeOK
  <2>8. ASSUME NEW p \in Procs, LoadFails(p) PROVE RangesCoverAmounts'
    BY <2>8, <2>s DEF LoadFails
  <2>9. CASE UNCHANGED vars
    BY <2>9 DEF vars
  <2> QED BY <2>1, <2>2, <2>3, <2>4, <2>5, <2>6, <2>7, <2>8, <2>9 DEF Next
<1> QED BY <1>1, <1>2, TypeCorrect, OneActive, PTL DEF Spec

-----------------------------------------------------------------------------
(* What each operation on a registry does to the entries it has. *)
LEMMA HistoryKept ==
    ASSUME NEW reg \in Registry
    PROVE  KeepsHistory(reg, reg)
<1>1. \A t \in Types : Len(reg[t]) \in Nat
  BY DEF Registry
<1>2. ASSUME NEW t \in Types, NEW i \in 1..Len(reg[t])
      PROVE  reg[t][i].lo \in Nat /\ reg[t][i].hi \in Nat
  <2>1. reg[t][i] \in Position
    BY DEF Registry
  <2> QED
    BY <2>1, BinsAssumption DEF Position
<1> QED
  BY <1>1, <1>2 DEF KeepsHistory

LEMMA AddedKeepsHistory ==
    ASSUME NEW reg \in Registry, NEW t \in Types, NEW id \in Nat,
           NEW lo \in Bins, NEW hi \in Bins, NEW amounts \in Amounts, SingleActive(reg)
    PROVE  KeepsHistory(reg, Added(reg, t, id, lo, hi, amounts))
<1> DEFINE new == Added(reg, t, id, lo, hi, amounts)
           Kept(was, is) == /\ is.id = was.id
                            /\ is.lo <= was.lo /\ was.hi <= is.hi
                            /\ ~was.active => is = was
<1>h. \A u \in Types : /\ Len(reg[u]) \in Nat
                       /\ reg[u] \in Seq(Position)
                       /\ \A i \in 1..Len(reg[u]) : Kept(reg[u][i], reg[u][i])
  BY HistoryKept DEF KeepsHistory, Registry
<1>1. ASSUME NEW u \in Types, u # t
      PROVE  /\ Len(reg[u]) <= Len(new[u])
             /\ \A i \in 1..Len(reg[u]) : Kept(reg[u][i], new[u][i])
  <2>1. new[u] = reg[u]
    BY <1>1, AddedElsewhere
  <2> HIDE DEF new, Kept
  <2> QED
    BY <1>h, <2>1
<1>2. CASE ActiveAt(reg[t]) = {}
  <2> DEFINE pos == Created(id, lo, hi, amounts)
  <2>1. pos \in Position
    BY CreatedType
  <2>2. new[t] = Append(reg[t], pos)
    BY <1>2 DEF Added, Registry
  <2> HIDE DEF pos, new
  <2>3. /\ Len(new[t]) = Len(reg[t]) + 1
        /\ \A i \in 1..Len(reg[t]) : new[t][i] = reg[t][i]
    BY <1>h, <2>1, <2>2
  <2>4. /\ Len(reg[t]) <= Len(new[t])
        /\ \A i \in 1..Len(reg[t]) : Kept(reg[t][i], new[t][i])
    <3> HIDE DEF Kept
    <3> QED
      BY <1>h, <2>3
  <2> QED
    BY <1>1, <2>4 DEF KeepsHistory, new
<1>3. CASE ActiveAt(reg[t]) # {}
  <2> DEFINE k == FirstActive(reg[t])
             merged == Merged(reg[t][k], lo, hi, amounts)
  <2>1. k \in 1..Len(reg[t]) /\ k \in ActiveAt(reg[t])
    BY <1>3, FirstActiveIsActive
  <2>2. new[t] = [reg[t] EXCEPT ![k] = merged]
    BY <1>3, MergedList
  <2>3. Kept(reg[t][k], merged)
    <3>1. reg[t][k] \in Position /\ reg[t][k].active
      BY <1>h, <2>1 DEF ActiveAt
    <3>2. /\ merged.id = reg[t][k].id
          /\ merged.lo = Least(reg[t][k].lo, lo)
          /\ merged.hi = Greatest(reg[t][k].hi, hi)
      BY <3>1 DEF Merged, Position
    <3>3. reg[t][k].lo \in Nat /\ reg[t][k].hi \in Nat /\ lo \in Nat /\ hi \in Nat
      BY <3>1, BinsAssumption DEF Position
    <3> HIDE DEF merged, k
    <3> QED
      BY <3>1, <3>2, <3>3 DEF Least, Greatest
  <2> HIDE DEF k, new, merged
  <2>4. /\ Len(new[t]) = Len(reg[t])
        /\ \A i \in 1..Len(reg[t]) : new[t][i] = IF i = k THEN merged ELSE reg[t][i]
    BY <1>h, <2>1, <2>2
  <2>5. /\ Len(reg[t]) <= Len(new[t])
        /\ \A i \in 1..Len(reg[t]) : Kept(reg[t][i], new[t][i])
    <3> HIDE DEF Kept
    <3> QED
      BY <1>h, <2>3, <2>4
  <2> QED
    BY <1>1, <2>5 DEF KeepsHistory, new
<1> QED
  BY <1>2, <1>3

LEMMA ExitedKeepsHistory ==
    ASSUME NEW reg \in Registry, NEW t \in Types, NEW i \in Nat
    PROVE  KeepsHistory(reg, Exited(reg, t, i))
<1> DEFINE new == Exited(reg, t, i)
           Kept(was, is) == /\ is.id = was.id
                            /\ is.lo <= was.lo /\ was.hi <= is.hi
                            /\ ~was.active => is = was
<1>h. \A u \in Types : /\ Len(reg[u]) \in Nat
                       /\ reg[u] \in Seq(Position)
                       /\ \A j \in 1..Len(reg[u]) : Kept(reg[u][j], reg[u][j])
  BY HistoryKept DEF KeepsHistory, Registry
<1>1. \A u \in Types : Len(new[u]) = Len(reg[u])
  BY ExitedEntry
<1>2. ASSUME NEW u \in Types, NEW j \in 1..Len(reg[u])
      PROVE  Kept(reg[u][j], new[u][j])
  <2>1. CASE u # t \/ j # i
    <3>1. new[u][j] = reg[u][j]
      BY <2>1, ExitedEntry
    <3> HIDE DEF Kept
    <3> QED
      BY <1>h, <3>1
  <2>2. CASE u = t /\ j = i
    <3>1. new[u][j] = AsExited(reg[u][j])
      BY <2>2, ExitedEntry
    <3>2. reg[u][j] \in Position
      BY <1>h
    <3>3. /\ AsExited(reg[u][j]).id = reg[u][j].id
          /\ AsExited(reg[u][j]).lo = reg[u][j].lo
          /\ AsExited(reg[u][j]).hi = reg[u][j].hi
          /\ ~reg[u][j].active => AsExited(reg[u][j]) = reg[u][j]
      BY <3>2 DEF AsExited, Position
    <3>4. reg[u][j].lo \in Nat /\ reg[u][j].hi \in Nat
      BY <3>2, BinsAssumption DEF Position
    <3> QED
      BY <3>1, <3>3, <3>4
  <2> QED
    BY <2>1, <2>2
<1>3. \A u \in Types : /\ Len(reg[u]) <= Len(new[u])
                       /\ \A j \in 1..Len(reg[u]) : Kept(reg[u][j], new[u][j])
  <2> HIDE DEF new, Kept
  <2> QED
    BY ONLY <1>h, <1>1, <1>2
<1> QED
  BY <1>3 DEF KeepsHistory

(* In every process, the list of a type is a history: an entry is never     *)
(* taken out, renamed or shrunk, and one that was exited is never touched   *)
(* again, whatever the saves and the other processes do to the file.        *)
THEOREM MemoryKeepsHistory == Spec => MemoryIsHistory
<1>1. ASSUME TypeOK, OneActivePerType, [Next]_vars, NEW q \in loaded \cap loaded'
      PROVE  KeepsHistory(mem[q], mem'[q])
  <2>r. \A p \in Procs : mem[p] \in Registry
    BY <1>1 DEF TypeOK
  <2>m. \A p \in Procs : mem[p] \in Registry /\ KeepsHistory(mem[p], mem[p])
    BY <2>r, HistoryKept
  <2>q. q \in Procs /\ q \in loaded /\ q \in loaded'
    BY <1>1 DEF TypeOK
  <2>1. ASSUME NEW p \in Procs, LoadFile(p) PROVE KeepsHistory(mem[q], mem'[q])
    <3>1. p # q
      BY <2>1, <2>q DEF LoadFile
    <3>2. mem'[q] = mem[q]
      BY <1>1, <2>1, <2>q, <3>1 DEF LoadFile, TypeOK
    <3> QED
      BY <2>m, <2>q, <3>2
  <2>2. ASSUME NEW p \in Procs, NEW t \in Types, NEW lo \in Bins, NEW hi \in Bins,
               NEW amounts \in Minted, AddPosition(p, t, lo, hi, amounts)
        PROVE  KeepsHistory(mem[q], mem'[q])
    <3> DEFINE new == Added(mem[p], t, adds', lo, hi, amounts)
    <3>1. amounts \in Amounts /\ adds' \in Nat /\ SingleActive(mem[p])
      BY <1>1, <2>2, MintedAssumption DEF AddPosition, Amounts, TypeOK, OneActivePerType
    <3>2. KeepsHistory(mem[p], new)
      BY <2>m, <3>1, AddedKeepsHistory
    <3>3. mem' = [mem EXCEPT ![p] = new]
      BY <2>2 DEF AddPosition
    <3> HIDE DEF new
    <3>4. mem'[q] = IF q = p THEN new ELSE mem[q]
      BY <1>1, <2>q, <3>3 DEF TypeOK
    <3> QED
      BY <2>m, <2>q, <3>2, <3>4
  <2>3. ASSUME NEW p \in Procs, NEW bins, Deregister(p, bins) \/ DropStale(p, bins)
        PROVE  KeepsHistory(mem[q], mem'[q])
    BY <2>m, <2>q, <2>3 DEF Deregister, DropStale
  <2>4. ASSUME NEW p \in Procs, NEW ti \in todo[p], RemovePosition(p, ti[1], ti[2])
        PROVE  KeepsHistory(mem[q], mem'[q])
    <3> DEFINE new == Exited(mem[p], ti[1], ti[2])
    <3>1. ti[1] \in Types /\ ti[2] \in Nat
      BY <1>1 DEF TypeOK
    <3>2. KeepsHistory(mem[p], new)
      BY <2>m, <3>1, ExitedKeepsHistory
    <3>3. mem' = [mem EXCEPT ![p] = new]
      BY <2>4 DEF RemovePosition
    <3> HIDE DEF new
    <3>4. mem'[q] = IF q = p THEN new ELSE mem[q]
      BY <1>1, <2>q, <3>3 DEF TypeOK
    <3> QED
      BY <2>m, <2>q, <3>2, <3>4
  <2>5. ASSUME NEW p \in Procs, FinishSave(p) \/ FailSave(p)
        PROVE  KeepsHistory(mem[q], mem'[q])
    BY <2>m, <2>q, <2>5 DEF FinishSave, FailSave
  <2>6. ASSUME NEW p \in Procs, Stop(p) PROVE KeepsHistory(mem[q], mem'[q])
    <3>1. p # q
      BY <2>6, <2>q DEF Stop
    <3>2. mem'[q] = mem[q]
      BY <1>1, <2>6, <2>q, <3>1 DEF Stop, TypeOK
    <3> QED
      BY <2>m, <2>q, <3>2
  <2>7. ASSUME NEW p \in Procs, LoadFails(p) PROVE KeepsHistory(mem[q], mem'[q])
    BY <2>m, <2>q, <2>7 DEF LoadFails
  <2>8. CASE UNCHANGED vars
    BY <2>m, <2>q, <2>8 DEF vars
  <2> QED
    BY <1>1, <2>1, <2>2, <2>3, <2>4, <2>5, <2>6, <2>7, <2>8 DEF Next
<1>2. TypeOK /\ OneActivePerType /\ [Next]_vars
        => [\A p \in loaded \cap loaded' : KeepsHistory(mem[p], mem'[p])]_vars
  BY <1>1
<1> QED
  BY <1>2, TypeCorrect, OneActive, PTL DEF Spec, MemoryIsHistory

-----------------------------------------------------------------------------
(***************************************************************************)
(* The registry of a single process: what it holds in memory is what a     *)
(* restart would read, and all it ever does to its entries is what         *)
(* PositionBook promises.                                                  *)
(***************************************************************************)
HIDE DEF Types
-----------------------------------------------------------------------------
(* Reading back what was read back changes nothing more. *)
LEMMA RereadTwice ==
    ASSUME NEW pos \in Position
    PROVE  Reread(Reread(pos)) = Reread(pos)
<1> DEFINE once == Reread(pos)
           ints == [b \in Bins |-> IF pos.strs[b] > 0 THEN pos.strs[b] ELSE pos.ints[b]]
<1>1. once \in Position /\ once.ints = ints /\ once.strs = NoAmounts
  BY RereadType DEF Reread, Position
<1>2. \A b \in Bins : ~(NoAmounts[b] > 0)
  BY DEF NoAmounts
<1> HIDE DEF once
<1>3. [b \in Bins |-> IF once.strs[b] > 0 THEN once.strs[b] ELSE once.ints[b]] = once.ints
  BY <1>1, <1>2 DEF Position, Amounts
<1>4. Reread(once) = [once EXCEPT !.ints = once.ints, !.strs = once.strs]
  BY <1>1, <1>3 DEF Reread
<1>5. Reread(once) = once
  BY <1>1, <1>4 DEF Position
<1> QED
  BY <1>5 DEF once

LEMMA ParsedTwice ==
    ASSUME NEW reg \in Registry
    PROVE  Parsed(Parsed(reg)) = Parsed(reg)
<1> DEFINE once == Parsed(reg)
<1>1. once \in Registry
  BY ParsedType
<1>2. ASSUME NEW t \in Types
      PROVE  [i \in 1..Len(once[t]) |-> Reread(once[t][i])] = once[t]
  <2>1. once[t] = [i \in 1..Len(reg[t]) |-> Reread(reg[t][i])] /\ Len(once[t]) = Len(reg[t])
    BY ParsedEntry DEF Parsed
  <2>2. \A i \in 1..Len(reg[t]) : reg[t][i] \in Position
    BY DEF Registry
  <2>3. \A i \in 1..Len(reg[t]) : Reread(once[t][i]) = once[t][i]
    BY <2>1, <2>2, RereadTwice
  <2> HIDE DEF once
  <2> QED
    BY <2>1, <2>3
<1> HIDE DEF once
<1>3. Parsed(once) = [t \in Types |-> once[t]]
  BY <1>2 DEF Parsed
<1>4. once = [t \in Types |-> once[t]]
  BY <1>1 DEF Registry
<1> QED
  BY <1>3, <1>4 DEF once

(* What a file reads back as stays an earlier state of a memory that goes   *)
(* on.                                                                      *)
LEMMA LaterStill ==
    ASSUME NEW old \in Registry, NEW reg \in Registry, NEW new \in Registry,
           KeepsHistory(Parsed(old), Parsed(reg)), KeepsHistory(reg, new)
    PROVE  KeepsHistory(Parsed(old), Parsed(new))
<1> DEFINE Kept(was, is) == /\ is.id = was.id
                            /\ is.lo <= was.lo /\ was.hi <= is.hi
                            /\ ~was.active => is = was
<1> SUFFICES ASSUME NEW t \in Types
             PROVE  /\ Len(Parsed(old)[t]) <= Len(Parsed(new)[t])
                    /\ \A i \in 1..Len(Parsed(old)[t]) :
                           Kept(Parsed(old)[t][i], Parsed(new)[t][i])
  BY DEF KeepsHistory
<1>l. \A r \in Registry : Len(Parsed(r)[t]) = Len(r[t]) /\ Len(r[t]) \in Nat
  <2> TAKE r \in Registry
  <2>1. r[t] \in Seq(Position)
    BY DEF Registry
  <2> QED
    BY <2>1, ParsedEntry
<1>1. /\ Len(Parsed(old)[t]) = Len(old[t]) /\ Len(Parsed(reg)[t]) = Len(reg[t])
      /\ Len(Parsed(new)[t]) = Len(new[t])
      /\ Len(old[t]) \in Nat /\ Len(reg[t]) \in Nat /\ Len(new[t]) \in Nat
  BY <1>l
<1>2. Len(old[t]) <= Len(reg[t]) /\ Len(reg[t]) <= Len(new[t])
  BY <1>1 DEF KeepsHistory
<1>3. ASSUME NEW i \in 1..Len(old[t])
      PROVE  Kept(Parsed(old)[t][i], Parsed(new)[t][i])
  <2>1. i \in 1..Len(reg[t]) /\ i \in 1..Len(new[t])
    BY <1>1, <1>2
  <2> DEFINE a == Parsed(old)[t][i]
             b == reg[t][i]
             c == new[t][i]
  <2>2. a = Reread(old[t][i]) /\ Parsed(reg)[t][i] = Reread(b) /\ Parsed(new)[t][i] = Reread(c)
    BY <2>1, ParsedEntry
  <2>3. b \in Position /\ c \in Position /\ old[t][i] \in Position
    BY <2>1 DEF Registry
  <2>4. a \in Position
    BY <2>2, <2>3, RereadType
  <2>5. Kept(a, Reread(b)) /\ Kept(b, c)
    BY <1>1, <2>1, <2>2 DEF KeepsHistory
  <2>6. \A pos \in Position : /\ Reread(pos).id = pos.id /\ Reread(pos).active = pos.active
                             /\ Reread(pos).lo = pos.lo /\ Reread(pos).hi = pos.hi
    BY DEF Reread, Position
  <2>7. \A pos \in Position : pos.lo \in Nat /\ pos.hi \in Nat
    BY BinsAssumption DEF Position
  <2> HIDE DEF a, b, c
  <2>8. Reread(c).id = a.id /\ Reread(c).lo <= a.lo /\ a.hi <= Reread(c).hi
    <3>1. /\ Reread(b).id = b.id /\ Reread(b).lo = b.lo /\ Reread(b).hi = b.hi
          /\ Reread(c).id = c.id /\ Reread(c).lo = c.lo /\ Reread(c).hi = c.hi
      BY <2>3, <2>6
    <3>2. /\ a.lo \in Nat /\ a.hi \in Nat /\ b.lo \in Nat /\ b.hi \in Nat
          /\ c.lo \in Nat /\ c.hi \in Nat
      BY <2>3, <2>4, <2>7
    <3> QED
      BY <2>5, <3>1, <3>2
  <2>9. ASSUME ~a.active PROVE Reread(c) = a
    <3>1. Reread(b) = a
      BY <2>5, <2>9
    <3>2. ~b.active
      BY <2>3, <2>6, <2>9, <3>1
    <3> QED
      BY <2>5, <3>1, <3>2
  <2> QED
    BY <2>2, <2>8, <2>9 DEF a, c
<1> HIDE DEF Kept
<1> QED
  BY <1>1, <1>2, <1>3

-----------------------------------------------------------------------------
(* The open range of a type, for each operation on a registry. *)
Named(reg) == \A t \in Types : \A i \in 1..Len(reg[t]) : reg[t][i].id # 0

LEMMA OpenRangeOfNone ==
    ASSUME NEW list, ActiveAt(list) = {}
    PROVE  OpenRange(list) = Book!Closed
BY DEF OpenRange, Book!Closed

LEMMA OpenRangeOfOne ==
    ASSUME NEW reg \in Registry, SingleActive(reg), NEW t \in Types, NEW k \in ActiveAt(reg[t])
    PROVE  /\ OpenRange(reg[t]) = [id |-> reg[t][k].id, lo |-> reg[t][k].lo, hi |-> reg[t][k].hi]
           /\ k = FirstActive(reg[t])
<1>1. k = FirstActive(reg[t])
  BY FirstActiveIsActive DEF SingleActive
<1> QED
  BY <1>1 DEF OpenRange

LEMMA EmptyRange ==
    ASSUME NEW t \in Types
    PROVE  OpenRange(Empty[t]) = Book!Closed
<1>1. ActiveAt(Empty[t]) = {}
  BY DEF ActiveAt, Empty
<1> QED
  BY <1>1, OpenRangeOfNone

LEMMA ParsedRange ==
    ASSUME NEW reg \in Registry, NEW t \in Types, SingleActive(reg)
    PROVE  OpenRange(Parsed(reg)[t]) = OpenRange(reg[t])
<1>1. ActiveAt(Parsed(reg)[t]) = ActiveAt(reg[t])
  BY ParsedActive
<1>2. CASE ActiveAt(reg[t]) = {}
  BY <1>1, <1>2, OpenRangeOfNone
<1>3. CASE ActiveAt(reg[t]) # {}
  <2>1. PICK k : k \in ActiveAt(reg[t])
    BY <1>3
  <2>2. k \in 1..Len(reg[t]) /\ reg[t][k] \in Position
    BY <2>1 DEF ActiveAt, Registry
  <2>3. Parsed(reg)[t][k] = Reread(reg[t][k])
    BY <2>2, ParsedEntry
  <2>4. /\ Reread(reg[t][k]).id = reg[t][k].id /\ Reread(reg[t][k]).lo = reg[t][k].lo
        /\ Reread(reg[t][k]).hi = reg[t][k].hi
    BY <2>2 DEF Reread, Position
  <2>5. Parsed(reg) \in Registry /\ SingleActive(Parsed(reg))
    BY ParsedType, ParsedActive DEF SingleActive
  <2>6. OpenRange(reg[t]) = [id |-> reg[t][k].id, lo |-> reg[t][k].lo, hi |-> reg[t][k].hi]
    BY <2>1, OpenRangeOfOne
  <2>7. k \in ActiveAt(Parsed(reg)[t])
    BY <1>1, <2>1
  <2> DEFINE read == Parsed(reg)
  <2> HIDE DEF read
  <2>8. OpenRange(read[t]) = [id |-> read[t][k].id, lo |-> read[t][k].lo, hi |-> read[t][k].hi]
    BY <2>5, <2>7, OpenRangeOfOne DEF read
  <2> QED
    BY <2>3, <2>4, <2>6, <2>8 DEF read
<1> QED
  BY <1>2, <1>3

(* Registries that read back alike are the same book. *)
LEMMA SameRange ==
    ASSUME NEW r \in Registry, NEW s \in Registry, SingleActive(r), SingleActive(s),
           Parsed(r) = Parsed(s), NEW t \in Types
    PROVE  OpenRange(r[t]) = OpenRange(s[t])
BY ParsedRange

LEMMA ParsedNamed ==
    ASSUME NEW reg \in Registry, Named(reg)
    PROVE  Named(Parsed(reg))
<1>1. \A t \in Types : \A i \in 1..Len(reg[t]) : Reread(reg[t][i]).id = reg[t][i].id
  BY DEF Reread, Registry, Position
<1> QED
  BY <1>1, ParsedEntry DEF Named

LEMMA ExitedNamed ==
    ASSUME NEW reg \in Registry, Named(reg), NEW t \in Types, NEW i \in Nat
    PROVE  Named(Exited(reg, t, i))
<1> SUFFICES ASSUME NEW u \in Types, NEW j \in 1..Len(Exited(reg, t, i)[u])
             PROVE  Exited(reg, t, i)[u][j].id # 0
  BY DEF Named
<1>1. j \in 1..Len(reg[u]) /\ reg[u][j] \in Position /\ reg[u][j].id # 0
  <2>1. Len(Exited(reg, t, i)[u]) = Len(reg[u])
    BY ExitedEntry
  <2>2. j \in 1..Len(reg[u])
    BY <2>1
  <2> QED
    BY <2>2 DEF Registry, Named
<1>2. CASE u = t /\ j = i
  <2>1. Exited(reg, t, i)[u][j] = AsExited(reg[u][j])
    BY <1>1, <1>2, ExitedEntry
  <2> QED
    BY <1>1, <2>1 DEF AsExited, Position
<1>3. CASE u # t \/ j # i
  BY <1>1, <1>3, ExitedEntry
<1> QED
  BY <1>2, <1>3

(* An exit closes the range of the entry, or does nothing to one that is closed. *)
LEMMA ExitedRange ==
    ASSUME NEW reg \in Registry, SingleActive(reg), NEW t \in Types, NEW i \in Nat
    PROVE  /\ \A u \in Types \ {t} : OpenRange(Exited(reg, t, i)[u]) = OpenRange(reg[u])
           /\ i \in ActiveAt(reg[t]) => OpenRange(Exited(reg, t, i)[t]) = Book!Closed
           /\ i \notin ActiveAt(reg[t]) =>
                 OpenRange(Exited(reg, t, i)[t]) = OpenRange(reg[t])
<1> DEFINE new == Exited(reg, t, i)
<1>1. new \in Registry /\ SingleActive(new)
  BY ExitedType, ExitedSingle
<1>2. \A u \in Types \ {t} : new[u] = reg[u]
  BY DEF Exited, Registry
<1>3. \A j : j \in ActiveAt(new[t]) => j \in ActiveAt(reg[t]) /\ j # i
  <2> SUFFICES ASSUME NEW j \in ActiveAt(new[t]) PROVE j \in ActiveAt(reg[t]) /\ j # i
    OBVIOUS
  <2>1. j \in 1..Len(reg[t]) /\ new[t][j].active /\ reg[t][j] \in Position
    BY ExitedEntry DEF ActiveAt, Registry
  <2>2. j # i
    <3> SUFFICES ASSUME j = i PROVE FALSE
      OBVIOUS
    <3>1. new[t][j] = AsExited(reg[t][j])
      BY <2>1, ExitedEntry
    <3> QED
      BY <2>1, <3>1 DEF AsExited, Position
  <2>3. new[t][j] = reg[t][j]
    BY <2>1, <2>2, ExitedEntry
  <2> QED
    BY <2>1, <2>2, <2>3 DEF ActiveAt
<1>4. \A j \in ActiveAt(reg[t]) : j # i => j \in ActiveAt(new[t]) /\ new[t][j] = reg[t][j]
  <2> SUFFICES ASSUME NEW j \in ActiveAt(reg[t]), j # i
               PROVE  j \in ActiveAt(new[t]) /\ new[t][j] = reg[t][j]
    OBVIOUS
  <2>1. j \in 1..Len(reg[t]) /\ reg[t][j].active
    BY DEF ActiveAt
  <2>2. new[t][j] = reg[t][j] /\ Len(new[t]) = Len(reg[t])
    BY <2>1, ExitedEntry
  <2> QED
    BY <2>1, <2>2 DEF ActiveAt
<1> HIDE DEF new
<1>5. i \in ActiveAt(reg[t]) => OpenRange(new[t]) = Book!Closed
  <2> SUFFICES ASSUME i \in ActiveAt(reg[t]) PROVE OpenRange(new[t]) = Book!Closed
    OBVIOUS
  <2>1. ActiveAt(new[t]) = {}
    BY <1>3 DEF SingleActive
  <2> QED
    BY <2>1, OpenRangeOfNone
<1>6. i \notin ActiveAt(reg[t]) => OpenRange(new[t]) = OpenRange(reg[t])
  <2> SUFFICES ASSUME i \notin ActiveAt(reg[t]) PROVE OpenRange(new[t]) = OpenRange(reg[t])
    OBVIOUS
  <2>1. CASE ActiveAt(reg[t]) = {}
    <3>1. ActiveAt(new[t]) = {}
      BY <1>3, <2>1
    <3> QED
      BY <2>1, <3>1, OpenRangeOfNone
  <2>2. CASE ActiveAt(reg[t]) # {}
    <3>1. PICK k \in ActiveAt(reg[t]) : TRUE
      BY <2>2
    <3>2. k # i /\ k \in ActiveAt(new[t]) /\ new[t][k] = reg[t][k]
      BY <1>4, <3>1
    <3> QED
      BY <1>1, <3>1, <3>2, OpenRangeOfOne
  <2> QED
    BY <2>1, <2>2
<1> QED
  BY <1>2, <1>5, <1>6 DEF new

(* Whether a type has an open range can be read off its name. *)
LEMMA OpenIffActive ==
    ASSUME NEW reg \in Registry, SingleActive(reg), Named(reg), NEW t \in Types
    PROVE  OpenRange(reg[t]) = Book!Closed <=> ActiveAt(reg[t]) = {}
<1>1. CASE ActiveAt(reg[t]) = {}
  BY <1>1, OpenRangeOfNone
<1>2. CASE ActiveAt(reg[t]) # {}
  <2>1. PICK k \in ActiveAt(reg[t]) : TRUE
    BY <1>2
  <2>2. OpenRange(reg[t]) = [id |-> reg[t][k].id, lo |-> reg[t][k].lo, hi |-> reg[t][k].hi]
    BY <2>1, OpenRangeOfOne
  <2>3. reg[t][k].id # 0
    BY <2>1 DEF Named, ActiveAt
  <2> QED
    BY <1>2, <2>2, <2>3 DEF Book!Closed
<1> QED
  BY <1>1, <1>2

(* An add opens the range of a type or widens the one it has. *)
Widened(range, lo, hi) ==
    [range EXCEPT !.lo = Book!Lesser(@, lo), !.hi = Book!Greater(@, hi)]

LEMMA AddedRange ==
    ASSUME NEW reg \in Registry, SingleActive(reg), NEW t \in Types, NEW id \in Nat,
           NEW lo \in Bins, NEW hi \in Bins, NEW amounts \in Amounts
    PROVE  /\ \A u \in Types \ {t} :
                 OpenRange(Added(reg, t, id, lo, hi, amounts)[u]) = OpenRange(reg[u])
           /\ ActiveAt(reg[t]) = {} =>
                 OpenRange(Added(reg, t, id, lo, hi, amounts)[t]) =
                     [id |-> id, lo |-> lo, hi |-> hi]
           /\ ActiveAt(reg[t]) # {} =>
                 OpenRange(Added(reg, t, id, lo, hi, amounts)[t]) =
                     Widened(OpenRange(reg[t]), lo, hi)
<1> DEFINE new == Added(reg, t, id, lo, hi, amounts)
<1>1. new \in Registry /\ SingleActive(new)
  BY AddedType, AddedSingle
<1>2. \A u \in Types \ {t} : new[u] = reg[u]
  BY AddedElsewhere
<1>3. ASSUME ActiveAt(reg[t]) = {}
      PROVE  OpenRange(new[t]) = [id |-> id, lo |-> lo, hi |-> hi]
  <2> DEFINE pos == Created(id, lo, hi, amounts)
             k == Len(reg[t]) + 1
  <2>1. pos \in Position /\ pos.active /\ pos.id = id /\ pos.lo = lo /\ pos.hi = hi
    BY CreatedType DEF Created
  <2>2. new[t] = Append(reg[t], pos)
    BY <1>3 DEF Added, Registry
  <2>3. k \in ActiveAt(new[t])
    BY <1>3, <2>1, <2>2, AppendedActive DEF Registry
  <2>4. new[t][k] = pos
    BY <2>2 DEF Registry
  <2> HIDE DEF new, pos, k
  <2>5. OpenRange(new[t]) = [id |-> new[t][k].id, lo |-> new[t][k].lo, hi |-> new[t][k].hi]
    BY <1>1, <2>3, OpenRangeOfOne
  <2> QED
    BY <2>1, <2>4, <2>5
<1>4. ASSUME ActiveAt(reg[t]) # {}
      PROVE  OpenRange(new[t]) = Widened(OpenRange(reg[t]), lo, hi)
  <2> DEFINE k == FirstActive(reg[t])
             merged == Merged(reg[t][k], lo, hi, amounts)
  <2>1. k \in ActiveAt(reg[t]) /\ k \in 1..Len(reg[t]) /\ reg[t] \in Seq(Position)
    BY <1>4, FirstActiveIsActive DEF Registry
  <2>2. new[t] = [reg[t] EXCEPT ![k] = merged]
    BY <1>4, MergedList
  <2>3. /\ merged.id = reg[t][k].id
        /\ merged.lo = Least(reg[t][k].lo, lo)
        /\ merged.hi = Greatest(reg[t][k].hi, hi)
    <3>1. reg[t][k] \in Position
      BY <2>1
    <3> QED
      BY <3>1 DEF Merged, Position
  <2> HIDE DEF new, merged, k
  <2>4. new[t][k] = merged
    BY <2>1, <2>2
  <2>5. ActiveAt(new[t]) = ActiveAt(reg[t])
    BY <2>1, <2>2, MergeKeepsActive DEF merged
  <2>6. OpenRange(reg[t]) = [id |-> reg[t][k].id, lo |-> reg[t][k].lo, hi |-> reg[t][k].hi]
    BY <2>1, OpenRangeOfOne
  <2>7. k \in ActiveAt(new[t])
    BY <2>1, <2>5
  <2>8. OpenRange(new[t]) = [id |-> new[t][k].id, lo |-> new[t][k].lo, hi |-> new[t][k].hi]
    BY <1>1, <2>7, OpenRangeOfOne
  <2>9. OpenRange(new[t]) = [id |-> reg[t][k].id,
                             lo |-> Book!Lesser(reg[t][k].lo, lo),
                             hi |-> Book!Greater(reg[t][k].hi, hi)]
    BY <2>3, <2>4, <2>8 DEF Least, Greatest, Book!Lesser, Book!Greater
  <2> DEFINE old   == OpenRange(reg[t])
             left  == Book!Lesser(old.lo, lo)
             right == Book!Greater(old.hi, hi)
  <2>10. left = Book!Lesser(reg[t][k].lo, lo) /\ right = Book!Greater(reg[t][k].hi, hi)
    BY <2>6
  <2> HIDE DEF left, right
  <2>11. [old EXCEPT !.lo = left, !.hi = right] =
            [id |-> reg[t][k].id, lo |-> left, hi |-> right]
    <3> DEFINE n == reg[t][k].id
               l == reg[t][k].lo
               h == reg[t][k].hi
    <3>1. old = [id |-> n, lo |-> l, hi |-> h]
      BY <2>6
    <3> HIDE DEF old, n, l, h
    <3>2. old \in [id: {n}, lo: {l}, hi: {h}]
      BY <3>1
    <3> DEFINE wider == [old EXCEPT !.lo = left, !.hi = right]
    <3>3. wider \in [id: {n}, lo: {left}, hi: {right}]
      BY <3>2
    <3> HIDE DEF wider
    <3>4. wider = [id |-> wider.id, lo |-> wider.lo, hi |-> wider.hi]
      BY <3>3
    <3> QED
      BY <3>3, <3>4 DEF wider, n
  <2> QED
    BY <2>9, <2>10, <2>11 DEF left, right, Widened
<1> QED
  BY <1>2, <1>3, <1>4

LEMMA AddedNamed ==
    ASSUME NEW reg \in Registry, SingleActive(reg), Named(reg), NEW t \in Types,
           NEW id \in Nat, id # 0, NEW lo \in Bins, NEW hi \in Bins, NEW amounts \in Amounts
    PROVE  Named(Added(reg, t, id, lo, hi, amounts))
<1> DEFINE new == Added(reg, t, id, lo, hi, amounts)
<1> SUFFICES ASSUME NEW u \in Types, NEW i \in 1..Len(new[u])
             PROVE  new[u][i].id # 0
  BY DEF Named
<1>1. CASE u # t
  BY <1>1, AddedElsewhere DEF Named
<1>2. CASE u = t /\ ActiveAt(reg[t]) = {}
  <2> DEFINE pos == Created(id, lo, hi, amounts)
  <2>1. pos \in Position /\ pos.id = id
    BY CreatedType DEF Created
  <2>2. new[t] = Append(reg[t], pos) /\ reg[t] \in Seq(Position)
    BY <1>2 DEF Added, Registry
  <2> HIDE DEF pos, new
  <2>3. i \in 1..(Len(reg[t]) + 1)
    BY <1>2, <2>1, <2>2
  <2>4. CASE i = Len(reg[t]) + 1
    BY <1>2, <2>1, <2>2, <2>4
  <2>5. CASE i \in 1..Len(reg[t])
    BY <1>2, <2>2, <2>5 DEF Named
  <2> QED
    BY <2>2, <2>3, <2>4, <2>5
<1>3. CASE u = t /\ ActiveAt(reg[t]) # {}
  <2> DEFINE k == FirstActive(reg[t])
             merged == Merged(reg[t][k], lo, hi, amounts)
  <2>1. k \in 1..Len(reg[t]) /\ reg[t] \in Seq(Position)
    BY <1>3, FirstActiveIsActive DEF Registry
  <2>2. new[t] = [reg[t] EXCEPT ![k] = merged]
    BY <1>3, MergedList
  <2>3. merged.id # 0
    <3>1. reg[t][k] \in Position /\ reg[t][k].id # 0
      BY <2>1 DEF Named
    <3> QED
      BY <3>1 DEF Merged, Position
  <2> HIDE DEF k, new, merged
  <2>4. i \in 1..Len(reg[t]) /\ new[t][i] = IF i = k THEN merged ELSE reg[t][i]
    BY <1>3, <2>1, <2>2
  <2> QED
    BY <1>3, <2>3, <2>4 DEF Named
<1> QED
  BY <1>1, <1>2, <1>3

LEMMA EmptyNamed == Named(Empty)
BY DEF Named, Empty

-----------------------------------------------------------------------------
(* A file that cannot be read counts as an empty one; while the process     *)
(* saves, its file is torn; between its operations the file, when it can be *)
(* read, reads back as its memory or, after a save that could not be begun, *)
(* as an earlier state of it; and what is to be marked as exited is active. *)
BookInv ==
    /\ file.state # "ok" => file.reg = Empty
    /\ Bot \in saving => file.state # "ok"
    /\ Bot \in loaded /\ Bot \notin saving /\ file.state = "ok" =>
          /\ KeepsHistory(Parsed(file.reg), Parsed(mem[Bot]))
          /\ Bot \notin unsaved => Parsed(file.reg) = Parsed(mem[Bot])
    /\ Named(file.reg) /\ Named(mem[Bot])
    /\ \A ti \in todo[Bot] : Bot \in loaded /\ ti[2] \in ActiveAt(mem[Bot][ti[1]])

(* The file that can be read says what the memory of its only process says, *)
(* or said before a save failed, whatever was lost or torn before.          *)
THEOREM BookInvariant ==
    ASSUME OneProcess
    PROVE  Spec => []BookInv
<1>1. Init => BookInv
  BY EmptyNamed DEF OneProcess, Init, BookInv
<1>2. TypeOK /\ OneActivePerType /\ BookInv /\ [Next]_vars => BookInv'
  <2> SUFFICES ASSUME TypeOK, OneActivePerType, BookInv, [Next]_vars PROVE BookInv'
    OBVIOUS
  <2> USE DEF OneProcess, BookInv
  <2>m. mem[Bot] \in Registry /\ file.reg \in Registry /\ SingleActive(mem[Bot])
    BY DEF TypeOK, File, OneActivePerType
  <2>s. ASSUME StartSave(Bot)
        PROVE  file'.state # "ok" /\ file'.reg = Empty /\ Named(file'.reg)
    BY <2>s, EmptyNamed DEF StartSave, Unreadable
  \* An operation that takes the memory on to new, whether it is saved or not.
  <2>t. ASSUME NEW new \in Registry, Named(new), KeepsHistory(mem[Bot], new),
               (StartSave(Bot) /\ UNCHANGED unsaved) \/ SaveFailsEarly(Bot),
               Bot \in loaded, Bot \in loaded', Bot \notin saving,
               mem' = [mem EXCEPT ![Bot] = new],
               \A ti \in todo'[Bot] : ti[2] \in ActiveAt(new[ti[1]])
        PROVE  BookInv'
    <3>1. mem'[Bot] = new
      BY <2>t DEF TypeOK
    <3>2. CASE StartSave(Bot)
      <4>1. file'.state # "ok" /\ file'.reg = Empty /\ Named(file'.reg)
        BY <2>s, <3>2
      <4> QED
        BY <2>t, <3>1, <4>1
    <3>3. CASE SaveFailsEarly(Bot)
      <4>1. file' = file /\ saving' = saving /\ Bot \in unsaved'
        BY <3>3 DEF SaveFailsEarly, SaveNotBegun
      <4>2. file.state = "ok" => KeepsHistory(Parsed(file.reg), Parsed(new))
        BY <2>m, <2>t, LaterStill
      <4> QED
        BY <2>t, <3>1, <4>1, <4>2
    <3> QED
      BY <2>t, <3>2, <3>3
  <2>1. ASSUME LoadFile(Bot) PROVE BookInv'
    <3>t. todo' = todo
      BY <2>1 DEF LoadFile
    <3>1. CASE file.state = "ok"
      <4> DEFINE read == Parsed(file.reg)
      <4>1. Named(read) /\ Parsed(read) = read /\ read \in Registry
        BY <2>m, ParsedNamed, ParsedTwice, ParsedType
      <4>h. KeepsHistory(read, read)
        BY <4>1, HistoryKept
      <4>2. mem' = [mem EXCEPT ![Bot] = read] /\ file' = file /\ saving' = saving
        BY <2>1, <3>1 DEF LoadFile
      <4>3. mem'[Bot] = read
        BY <4>2 DEF TypeOK
      <4>4. Bot \notin saving
        BY <2>1 DEF LoadFile, TypeOK
      <4>5. todo[Bot] = {}
        BY <2>1 DEF LoadFile
      <4> HIDE DEF read
      <4> QED
        BY <3>1, <3>t, <4>1, <4>2, <4>3, <4>4, <4>5, <4>h DEF read
    <3>2. CASE file.state # "ok"
      <4>1. StartSave(Bot) /\ mem' = [mem EXCEPT ![Bot] = Empty]
        BY <2>1, <3>2 DEF LoadFile
      <4>2. mem'[Bot] = Empty
        BY <4>1 DEF TypeOK
      <4>3. todo[Bot] = {}
        BY <2>1 DEF LoadFile
      <4> QED
        BY <2>s, <3>t, <4>1, <4>2, <4>3, EmptyNamed
    <3> QED
      BY <3>1, <3>2
  <2>2. ASSUME NEW t \in Types, NEW lo \in Bins, NEW hi \in Bins,
               NEW amounts \in Minted, AddPosition(Bot, t, lo, hi, amounts)
        PROVE  BookInv'
    <3>1. amounts \in Amounts /\ adds' \in Nat /\ adds' # 0
      BY <2>2, MintedAssumption DEF AddPosition, Amounts, TypeOK
    <3> DEFINE new == Added(mem[Bot], t, adds', lo, hi, amounts)
    <3>2. Named(new) /\ new \in Registry /\ KeepsHistory(mem[Bot], new)
      BY <2>m, <3>1, AddedNamed, AddedType, AddedKeepsHistory
    <3>3. /\ mem' = [mem EXCEPT ![Bot] = new]
          /\ (StartSave(Bot) /\ UNCHANGED unsaved) \/ SaveFailsEarly(Bot)
          /\ Bot \in loaded /\ Bot \in loaded' /\ Bot \notin saving /\ todo'[Bot] = {}
      BY <2>2 DEF AddPosition, Idle
    <3> HIDE DEF new
    <3> QED
      BY <2>t, <3>2, <3>3
  <2>3. ASSUME NEW bins, Deregister(Bot, bins) \/ DropStale(Bot, bins) PROVE BookInv'
    <3>1. /\ UNCHANGED <<file, mem, loaded, saving, unsaved>>
          /\ todo'[Bot] \subseteq FoundBy(mem[Bot], bins)
          /\ Bot \in loaded
      BY <2>3 DEF Deregister, DropStale, EntirelyIn, Idle, TypeOK
    <3>2. \A ti \in FoundBy(mem[Bot], bins) : ti[2] \in ActiveAt(mem[Bot][ti[1]])
      BY DEF FoundBy
    <3> QED
      BY <3>1, <3>2
  <2>4. ASSUME NEW ti \in todo[Bot], RemovePosition(Bot, ti[1], ti[2]) PROVE BookInv'
    <3>1. ti[1] \in Types /\ ti[2] \in Nat /\ ti = <<ti[1], ti[2]>>
      BY DEF TypeOK
    <3> DEFINE new == Exited(mem[Bot], ti[1], ti[2])
    <3>2. Named(new) /\ new \in Registry /\ KeepsHistory(mem[Bot], new)
      BY <2>m, <3>1, ExitedNamed, ExitedType, ExitedKeepsHistory
    <3>3. /\ mem' = [mem EXCEPT ![Bot] = new]
          /\ (StartSave(Bot) /\ UNCHANGED unsaved) \/ SaveFailsEarly(Bot)
          /\ Bot \in loaded /\ Bot \in loaded' /\ Bot \notin saving
      BY <2>4 DEF RemovePosition
    <3>4. todo'[Bot] \subseteq todo[Bot] \ {ti}
      BY <2>4, <3>1 DEF RemovePosition, TypeOK
    <3>5. ASSUME NEW tj \in todo'[Bot] PROVE tj[2] \in ActiveAt(new[tj[1]])
      <4>1. tj \in todo[Bot] /\ tj # ti /\ tj[1] \in Types /\ tj[2] \in Nat
            /\ tj = <<tj[1], tj[2]>> /\ tj[2] \in ActiveAt(mem[Bot][tj[1]])
        BY <3>4 DEF TypeOK
      <4>2. tj[2] \in 1..Len(mem[Bot][tj[1]]) /\ mem[Bot][tj[1]][tj[2]].active
        BY <4>1 DEF ActiveAt
      <4>3. tj[1] # ti[1] \/ tj[2] # ti[2]
        BY <3>1, <4>1
      <4>4. Len(new[tj[1]]) = Len(mem[Bot][tj[1]]) /\ new[tj[1]][tj[2]] = mem[Bot][tj[1]][tj[2]]
        BY <2>m, <3>1, <4>1, <4>2, <4>3, ExitedEntry
      <4> QED
        BY <4>2, <4>4 DEF ActiveAt
    <3> HIDE DEF new
    <3> QED
      BY <2>t, <3>2, <3>3, <3>5
  <2>5. ASSUME FinishSave(Bot) PROVE BookInv'
    <3>1. /\ file' = Written(mem[Bot]) /\ mem' = mem /\ saving' = saving \ {Bot}
          /\ todo' = todo /\ loaded' = loaded
      BY <2>5 DEF FinishSave
    <3>2. file'.state = "ok" /\ file'.reg = mem[Bot]
      BY <3>1 DEF Written
    <3>3. KeepsHistory(Parsed(mem[Bot]), Parsed(mem[Bot]))
      BY <2>m, ParsedType, HistoryKept
    <3> QED
      BY <3>1, <3>2, <3>3
  <2>6. ASSUME FailSave(Bot) PROVE BookInv'
    BY <2>6 DEF FailSave, TypeOK
  <2>7. ASSUME Stop(Bot) PROVE BookInv'
    BY <2>7, EmptyNamed DEF Stop, TypeOK
  <2>8. ASSUME LoadFails(Bot) PROVE BookInv'
    BY <2>8 DEF LoadFails, SaveNotBegun
  <2>9. CASE UNCHANGED vars
    BY <2>9 DEF vars
  <2> QED
    BY <2>1, <2>2, <2>3, <2>4, <2>5, <2>6, <2>7, <2>8, <2>9 DEF Next
<1> QED
  BY <1>1, <1>2, TypeCorrect, OneActive, PTL DEF Spec

(* Whenever the file can be read and no operation is under way, it is a     *)
(* state that the memory of the only process was in, and the one it is in   *)
(* unless a save has failed since the last one that ended.  With two        *)
(* processes this fails: each keeps the copy it loaded.                     *)
THEOREM FileFollowsTheOnlyMemory ==
    ASSUME OneProcess
    PROVE  Spec => []FileFollowsMemory
<1>1. BookInv => FileFollowsMemory
  BY DEF OneProcess, BookInv, FileFollowsMemory, Idle
<1> QED
  BY <1>1, BookInvariant, PTL

-----------------------------------------------------------------------------
(* Every step of the registry opens, widens or closes one range, stores the *)
(* book, goes back to the stored one, or leaves both alone.                 *)
LEMMA BookStep ==
    ASSUME OneProcess, TypeOK, OneActivePerType, BookInv, TypeOK', OneActivePerType', BookInv',
           [Next]_vars
    PROVE  [Book!Next]_(Book!vars)
<1> USE DEF OneProcess
<1> DEFINE now == Ranges(Current)
           kept == Ranges(file.reg)
<1>m. /\ mem[Bot] \in Registry /\ SingleActive(mem[Bot]) /\ Named(mem[Bot])
      /\ file.reg \in Registry /\ SingleActive(file.reg)
  BY DEF TypeOK, File, OneActivePerType, BookInv
<1>n. /\ \A t \in Types : now[t] = OpenRange(Current[t])
      /\ now' = Ranges(Current') /\ kept' = Ranges(file'.reg)
  BY DEF Ranges
<1>q. ASSUME UNCHANGED <<now, kept, adds>> PROVE UNCHANGED Book!vars
  BY <1>q DEF Book!vars
<1>e. Ranges(Empty) = Book!Nothing
  BY EmptyRange DEF Ranges, Book!Nothing
<1>s. ASSUME StartSave(Bot) \/ SaveFailsEarly(Bot)
      PROVE  kept' \in {kept, Book!Nothing} /\ Book!Unstored
  <2>1. CASE StartSave(Bot)
    <3>1. kept' = Book!Nothing
      BY <1>e, <1>n, <2>1 DEF StartSave, Unreadable
    <3> QED
      BY <3>1 DEF Book!Unstored
  <2>2. CASE SaveFailsEarly(Bot)
    <3>1. kept' = kept
      BY <1>n, <2>2 DEF SaveFailsEarly, SaveNotBegun
    <3> QED
      BY <3>1 DEF Book!Unstored
  <2> QED
    BY <1>s, <2>1, <2>2
<1>1. ASSUME LoadFile(Bot) PROVE UNCHANGED <<now, kept, adds>>
  <2>1. Current = file.reg /\ Current' = mem'[Bot]
    BY <1>1 DEF LoadFile, Current
  <2>2. CASE file.state = "ok"
    <3>1. mem'[Bot] = Parsed(file.reg)
      BY <1>1, <2>2 DEF LoadFile, TypeOK
    <3>2. \A t \in Types : OpenRange(Parsed(file.reg)[t]) = OpenRange(file.reg[t])
      BY <1>m, ParsedRange
    <3>3. Ranges(Parsed(file.reg)) = Ranges(file.reg)
      BY <3>2 DEF Ranges
    <3> QED
      BY <1>1, <1>n, <2>1, <2>2, <3>1, <3>3 DEF LoadFile
  <2>3. CASE file.state # "ok"
    <3>1. mem'[Bot] = Empty /\ file.reg = Empty /\ file'.reg = Empty /\ adds' = adds
      BY <1>1, <2>3 DEF LoadFile, StartSave, Unreadable, TypeOK, BookInv
    <3> QED
      BY <1>n, <2>1, <3>1
  <2> QED
    BY <2>2, <2>3
<1>2. ASSUME NEW t \in Types, NEW lo \in Bins, NEW hi \in Bins,
             NEW amounts \in Minted, AddPosition(Bot, t, lo, hi, amounts)
      PROVE  lo <= hi /\ (Book!Open(t, lo, hi) \/ Book!Widen(t, lo, hi))
  <2> DEFINE new == Added(mem[Bot], t, adds', lo, hi, amounts)
  <2>1. amounts \in Amounts /\ adds' \in Nat /\ adds' = adds + 1 /\ lo <= hi
    BY <1>2, MintedAssumption DEF AddPosition, Amounts, TypeOK
  <2>2. Bot \in loaded /\ Bot \in loaded' /\ mem' = [mem EXCEPT ![Bot] = new]
    BY <1>2 DEF AddPosition, Idle
  <2>3. /\ \A u \in Types \ {t} : OpenRange(new[u]) = OpenRange(mem[Bot][u])
        /\ ActiveAt(mem[Bot][t]) = {} =>
              OpenRange(new[t]) = [id |-> adds', lo |-> lo, hi |-> hi]
        /\ ActiveAt(mem[Bot][t]) # {} =>
              OpenRange(new[t]) = Widened(OpenRange(mem[Bot][t]), lo, hi)
    <3> DEFINE reg == mem[Bot]
               id  == adds'
    <3>1. reg \in Registry /\ SingleActive(reg) /\ id \in Nat /\ amounts \in Amounts
      BY <1>m, <2>1
    <3> HIDE DEF reg, id
    <3> SUFFICES /\ \A u \in Types \ {t} :
                       OpenRange(Added(reg, t, id, lo, hi, amounts)[u]) = OpenRange(reg[u])
                 /\ ActiveAt(reg[t]) = {} =>
                       OpenRange(Added(reg, t, id, lo, hi, amounts)[t]) =
                           [id |-> id, lo |-> lo, hi |-> hi]
                 /\ ActiveAt(reg[t]) # {} =>
                       OpenRange(Added(reg, t, id, lo, hi, amounts)[t]) =
                           Widened(OpenRange(reg[t]), lo, hi)
      BY DEF reg, id
    <3> QED
      BY <3>1, AddedRange
  <2>4. now[t] = Book!Closed <=> ActiveAt(mem[Bot][t]) = {}
    BY <1>m, <2>2, OpenIffActive DEF Current, Ranges
  <2>s. Book!Unstored
    BY <1>2, <1>s DEF AddPosition
  <2> HIDE DEF new
  <2>5. Current = mem[Bot] /\ Current' = new
    BY <2>2 DEF Current, TypeOK
  <2>6. now' = [now EXCEPT ![t] = OpenRange(new[t])]
    BY <1>n, <2>3, <2>5 DEF Ranges
  <2>7. CASE ActiveAt(mem[Bot][t]) = {}
    <3>1. now' = [now EXCEPT ![t] = [id |-> adds', lo |-> lo, hi |-> hi]]
      BY <2>3, <2>6, <2>7
    <3>2. Book!Open(t, lo, hi)
      BY <2>1, <2>4, <2>7, <2>s, <3>1 DEF Book!Open
    <3> QED
      BY <2>1, <3>2
  <2>8. CASE ActiveAt(mem[Bot][t]) # {}
    <3>1. now' = [now EXCEPT ![t] = Widened(now[t], lo, hi)]
      BY <2>3, <2>5, <2>6, <2>8 DEF Ranges
    <3>2. Book!Widen(t, lo, hi)
      BY <2>1, <2>4, <2>8, <2>s, <3>1 DEF Book!Widen, Widened
    <3> QED
      BY <2>1, <3>2
  <2> QED
    BY <2>7, <2>8
<1>3. ASSUME NEW bins, Deregister(Bot, bins) \/ DropStale(Bot, bins)
      PROVE  UNCHANGED <<now, kept, adds>>
  BY <1>3 DEF Deregister, DropStale, Current
<1>4. ASSUME NEW ti \in todo[Bot], RemovePosition(Bot, ti[1], ti[2])
      PROVE  Book!Close(ti[1])
  <2> DEFINE t == ti[1]
             new == Exited(mem[Bot], ti[1], ti[2])
  <2>1. t \in Types /\ ti[2] \in Nat /\ ti[2] \in ActiveAt(mem[Bot][t])
    BY DEF TypeOK, BookInv
  <2>2. Bot \in loaded /\ Bot \in loaded' /\ mem' = [mem EXCEPT ![Bot] = new]
        /\ adds' = adds
    BY <1>4 DEF RemovePosition
  <2>3. /\ \A u \in Types \ {t} : OpenRange(new[u]) = OpenRange(mem[Bot][u])
        /\ OpenRange(new[t]) = Book!Closed
    BY <1>m, <2>1, ExitedRange
  <2>4. now[t] = Book!Closed <=> ActiveAt(mem[Bot][t]) = {}
    BY <1>m, <2>1, <2>2, OpenIffActive DEF Current, Ranges
  <2>s. Book!Unstored
    BY <1>4, <1>s DEF RemovePosition
  <2> HIDE DEF new, t
  <2>5. Current = mem[Bot] /\ Current' = new
    BY <2>2 DEF Current, TypeOK
  <2>6. now' = [now EXCEPT ![t] = Book!Closed]
    BY <1>n, <2>1, <2>3, <2>5 DEF Ranges
  <2>7. now[t] # Book!Closed
    BY <2>1, <2>4
  <2> QED
    BY <2>2, <2>6, <2>7, <2>s DEF Book!Close, t
<1>5. ASSUME FinishSave(Bot) PROVE Book!Store
  <2>1. Current' = Current /\ Current = mem[Bot] /\ adds' = adds
    BY <1>5 DEF FinishSave, Current, TypeOK
  <2>2. file'.reg = mem[Bot]
    BY <1>5 DEF FinishSave, Written, BookInv
  <2> QED
    BY <1>n, <2>1, <2>2 DEF Book!Store
<1>6. ASSUME FailSave(Bot) PROVE UNCHANGED <<now, kept, adds>>
  <2>1. Current' = Current
    BY <1>6 DEF FailSave, Current, TypeOK, BookInv
  <2> QED
    BY <1>6, <1>n, <2>1 DEF FailSave
<1>7. ASSUME Stop(Bot) PROVE Book!Restart
  <2>1. Current' = file.reg /\ adds' = adds /\ file' = file
    BY <1>7 DEF Stop, Current
  <2> QED
    BY <1>n, <2>1 DEF Book!Restart
<1>8. ASSUME LoadFails(Bot) PROVE UNCHANGED <<now, kept, adds>>
  BY <1>8 DEF LoadFails, SaveNotBegun, Current
<1>9. CASE UNCHANGED vars
  BY <1>9, <1>q DEF vars, Current
<1> HIDE DEF now, kept
<1>10. CASE Next
  <2>1. ASSUME NEW ti \in todo[Bot], RemovePosition(Bot, ti[1], ti[2]) PROVE Book!Next
    <3>1. ti[1] \in Types
      BY DEF TypeOK
    <3> QED
      BY <1>4, <2>1, <3>1 DEF Book!Next
  <2>2. ASSUME NEW t \in Types, NEW lo \in Bins, NEW hi \in Bins,
               NEW amounts \in Minted, AddPosition(Bot, t, lo, hi, amounts)
        PROVE  Book!Next
    BY <1>2, <2>2 DEF Book!Next
  <2>3. ASSUME FinishSave(Bot) \/ Stop(Bot) PROVE Book!Next
    BY <1>5, <1>7, <2>3 DEF Book!Next
  <2> QED
    BY <1>10, <1>1, <1>3, <1>6, <1>8, <1>q, <2>1, <2>2, <2>3 DEF Next
<1> QED
  BY <1>9, <1>10

(* Through saves, failed saves, stops at any point, torn files and reloads, *)
(* the registry of a single process opens, widens and closes one range per  *)
(* type; a restart goes back to the ranges of the last save that ended, or  *)
(* to none at all if one was torn since.                                    *)
THEOREM RegistryImplementsBook ==
    ASSUME OneProcess
    PROVE  Spec => ImplementsBook
<1>1. Init => Book!Init
  <2> SUFFICES ASSUME Init PROVE Book!Init
    OBVIOUS
  <2>1. Current = Empty /\ file.reg = Empty
    BY DEF OneProcess, Init, Current
  <2>2. Ranges(Empty) = Book!Nothing
    BY EmptyRange DEF Ranges, Book!Nothing
  <2> QED
    BY <2>1, <2>2 DEF Init, Book!Init
<1>2. TypeOK /\ OneActivePerType /\ BookInv /\ TypeOK' /\ OneActivePerType' /\ BookInv'
         /\ [Next]_vars
        => [Book!Next]_(Book!vars)
  BY BookStep
<1> QED
  BY <1>1, <1>2, TypeCorrect, OneActive, BookInvariant, PTL DEF Spec, ImplementsBook, Book!Spec

-----------------------------------------------------------------------------
(* No two entries of a type have the same name, and while the process saves,*)
(* what it is about to write has every entry of the file it found, exited   *)
(* where that was.                                                          *)
NamesApart(reg) ==
    \A t \in Types : \A i, j \in 1..Len(reg[t]) : reg[t][i].id = reg[t][j].id => i = j

NamesUpTo(reg, n) == \A t \in Types : \A i \in 1..Len(reg[t]) : reg[t][i].id <= n

Succeeds(old, new) ==
    \A t \in Types :
        /\ Len(old[t]) <= Len(new[t])
        /\ \A i \in 1..Len(old[t]) :
               /\ new[t][i].id = old[t][i].id
               /\ ~old[t][i].active => ~new[t][i].active

SaveInv ==
    /\ file.state = "absent" => backup.state = "absent"
    /\ Bot \in saving /\ backup.state = "ok" => Succeeds(backup.reg, mem[Bot])
    /\ NamesApart(file.reg) /\ NamesUpTo(file.reg, adds)
    /\ NamesApart(mem[Bot]) /\ NamesUpTo(mem[Bot], adds)

(* A registry that reads back as another is followed by whatever keeps the  *)
(* history of the other.                                                    *)
LEMMA LaterSucceeds ==
    ASSUME NEW old \in Registry, NEW new \in Registry,
           KeepsHistory(Parsed(old), Parsed(new))
    PROVE  Succeeds(old, new)
<1> SUFFICES ASSUME NEW t \in Types
             PROVE  /\ Len(old[t]) <= Len(new[t])
                    /\ \A i \in 1..Len(old[t]) :
                           /\ new[t][i].id = old[t][i].id
                           /\ ~old[t][i].active => ~new[t][i].active
  BY DEF Succeeds
<1>l. \A r \in Registry : Len(Parsed(r)[t]) = Len(r[t]) /\ Len(r[t]) \in Nat
  <2> TAKE r \in Registry
  <2>1. r[t] \in Seq(Position)
    BY DEF Registry
  <2> QED
    BY <2>1, ParsedEntry
<1>1. /\ Len(Parsed(old)[t]) = Len(old[t]) /\ Len(Parsed(new)[t]) = Len(new[t])
      /\ Len(old[t]) \in Nat /\ Len(new[t]) \in Nat
  BY <1>l
<1>2. Len(old[t]) <= Len(new[t])
  BY <1>1 DEF KeepsHistory
<1>3. ASSUME NEW i \in 1..Len(old[t])
      PROVE  new[t][i].id = old[t][i].id /\ (~old[t][i].active => ~new[t][i].active)
  <2>0. i \in 1..Len(new[t])
    BY <1>1, <1>2
  <2>1. old[t][i] \in Position /\ new[t][i] \in Position
    BY <2>0 DEF Registry
  <2>2. Parsed(old)[t][i] = Reread(old[t][i]) /\ Parsed(new)[t][i] = Reread(new[t][i])
    BY <2>0, ParsedEntry
  <2>3. \A pos \in Position : Reread(pos).id = pos.id /\ Reread(pos).active = pos.active
    BY DEF Reread, Position
  <2>4. /\ Reread(new[t][i]).id = Reread(old[t][i]).id
        /\ ~Reread(old[t][i]).active => Reread(new[t][i]) = Reread(old[t][i])
    BY <1>1, <2>2 DEF KeepsHistory
  <2> QED
    BY <2>1, <2>3, <2>4
<1> QED
  BY <1>2, <1>3

LEMMA NamesAreNumbers ==
    ASSUME NEW reg \in Registry, NEW n \in Nat, NamesUpTo(reg, n),
           NEW t \in Types, NEW i \in 1..Len(reg[t])
    PROVE  reg[t][i].id \in 0..n
<1>1. reg[t][i] \in Position
  BY DEF Registry
<1>2. reg[t][i].id \in Nat
  BY <1>1 DEF Position
<1> QED
  BY <1>2 DEF NamesUpTo

(* Names stay apart when entries keep theirs. *)
LEMMA SameNames ==
    ASSUME NEW reg, NEW new, NEW n \in Nat, NEW m \in Nat, n <= m,
           NamesApart(reg), NamesUpTo(reg, n), reg \in Registry,
           \A t \in Types : /\ Len(new[t]) = Len(reg[t])
                            /\ \A i \in 1..Len(reg[t]) : new[t][i].id = reg[t][i].id
    PROVE  NamesApart(new) /\ NamesUpTo(new, m)
<1>1. \A t \in Types : \A i \in 1..Len(reg[t]) : reg[t][i].id \in 0..n
  BY NamesAreNumbers
<1>2. \A t \in Types : \A i \in 1..Len(reg[t]) : reg[t][i].id <= m
  BY <1>1
<1> QED
  BY <1>2 DEF NamesApart, NamesUpTo

LEMMA AddedNames ==
    ASSUME NEW reg \in Registry, SingleActive(reg), NEW n \in Nat,
           NamesApart(reg), NamesUpTo(reg, n), NEW t \in Types,
           NEW lo \in Bins, NEW hi \in Bins, NEW amounts \in Amounts
    PROVE  /\ NamesApart(Added(reg, t, n + 1, lo, hi, amounts))
           /\ NamesUpTo(Added(reg, t, n + 1, lo, hi, amounts), n + 1)
<1> DEFINE new == Added(reg, t, n + 1, lo, hi, amounts)
<1>0. new \in Registry /\ KeepsHistory(reg, new)
  BY AddedType, AddedKeepsHistory
<1>k. \A u \in Types : \A i \in 1..Len(reg[u]) : new[u][i].id = reg[u][i].id
  BY <1>0 DEF KeepsHistory
<1>e. \A u \in Types \ {t} : new[u] = reg[u]
  BY AddedElsewhere
<1>1. CASE ActiveAt(reg[t]) # {}
  <2>1. new[t] = [reg[t] EXCEPT ![FirstActive(reg[t])] =
                      Merged(reg[t][FirstActive(reg[t])], lo, hi, amounts)]
    BY <1>1, MergedList
  <2> HIDE DEF new
  <2>2. Len(new[t]) = Len(reg[t])
    BY <2>1 DEF Registry
  <2>3. \A u \in Types : Len(new[u]) = Len(reg[u])
    BY <1>e, <2>2
  <2>4. n + 1 \in Nat /\ n <= n + 1
    OBVIOUS
  <2> QED
    BY <1>k, <2>3, <2>4, SameNames DEF new
<1>2. CASE ActiveAt(reg[t]) = {}
  <2> DEFINE pos == Created(n + 1, lo, hi, amounts)
  <2>1. pos \in Position /\ pos.id = n + 1
    BY CreatedType DEF Created
  <2>2. new[t] = Append(reg[t], pos)
    BY <1>2 DEF Added, Registry
  <2>3. reg[t] \in Seq(Position) /\ Len(reg[t]) \in Nat
    BY DEF Registry
  <2> HIDE DEF pos, new
  <2>4. Len(new[t]) = Len(reg[t]) + 1 /\ new[t][Len(reg[t]) + 1].id = n + 1
    BY <2>1, <2>2, <2>3
  <2>5. \A u \in Types : \A i \in 1..Len(reg[u]) : reg[u][i].id \in 0..n
    BY NamesAreNumbers
  <2>6. ASSUME NEW u \in Types, NEW i \in 1..Len(new[u])
        PROVE  /\ i \in 1..Len(reg[u]) => new[u][i].id \in 0..n
               /\ i \notin 1..Len(reg[u]) =>
                     u = t /\ i = Len(reg[t]) + 1 /\ new[u][i].id = n + 1
    <3>1. CASE u # t
      BY <1>e, <2>5, <3>1
    <3>2. CASE u = t /\ i \in 1..Len(reg[t])
      <4>1. new[u][i].id = reg[u][i].id
        BY <1>k, <3>2
      <4> QED
        BY <2>5, <3>2, <4>1
    <3>3. CASE u = t /\ i \notin 1..Len(reg[t])
      BY <2>3, <2>4, <3>3
    <3> QED
      BY <3>1, <3>2, <3>3
  <2>7. NamesUpTo(new, n + 1)
    BY <2>6 DEF NamesUpTo
  <2>8. NamesApart(new)
    <3> SUFFICES ASSUME NEW u \in Types, NEW i \in 1..Len(new[u]), NEW j \in 1..Len(new[u]),
                        new[u][i].id = new[u][j].id
                 PROVE  i = j
      BY DEF NamesApart
    <3>1. CASE i \in 1..Len(reg[u]) /\ j \in 1..Len(reg[u])
      BY <1>k, <3>1 DEF NamesApart
    <3>2. CASE i \notin 1..Len(reg[u]) \/ j \notin 1..Len(reg[u])
      BY <2>6, <3>2
    <3> QED
      BY <3>1, <3>2
  <2> QED
    BY <2>7, <2>8 DEF new
<1> QED
  BY <1>1, <1>2

(* Names are given once, and the memory follows the backup, in the middle   *)
(* of a save as well.                                                       *)
THEOREM SaveInvariant ==
    ASSUME OneProcess
    PROVE  Spec => []SaveInv
<1>1. Init => SaveInv
  BY DEF OneProcess, Init, SaveInv, Empty, NamesApart, NamesUpTo
<1>2. TypeOK /\ OneActivePerType /\ BookInv /\ SaveInv /\ [Next]_vars /\ TypeOK' => SaveInv'
  <2> SUFFICES ASSUME TypeOK, OneActivePerType, BookInv, SaveInv, [Next]_vars, TypeOK'
               PROVE  SaveInv'
    OBVIOUS
  <2> USE DEF OneProcess
  <2>m. /\ mem[Bot] \in Registry /\ file.reg \in Registry /\ SingleActive(mem[Bot])
        /\ backup.reg \in Registry /\ adds \in Nat
    BY DEF TypeOK, File, OneActivePerType
  <2>n. /\ NamesApart(file.reg) /\ NamesUpTo(file.reg, adds)
        /\ NamesApart(mem[Bot]) /\ NamesUpTo(mem[Bot], adds)
    BY DEF SaveInv
  <2>e. \A n : NamesApart(Empty) /\ NamesUpTo(Empty, n)
    BY DEF NamesApart, NamesUpTo, Empty
  <2>s. ASSUME StartSave(Bot)
        PROVE  /\ file'.state = "torn" /\ file'.reg = Empty
               /\ backup'.state = "ok" => file.state = "ok" /\ backup' = file
               /\ saving' = saving \cup {Bot}
    BY <2>s DEF StartSave, Unreadable, SaveInv
  \* A save that starts from the memory new, which follows what the file held.
  <2>t. ASSUME NEW new \in Registry, StartSave(Bot), mem' = [mem EXCEPT ![Bot] = new],
               NamesApart(new), NamesUpTo(new, adds'),
               file.state = "ok" => Succeeds(file.reg, new)
        PROVE  SaveInv'
    <3>1. mem'[Bot] = new
      BY <2>t DEF TypeOK
    <3>2. Bot \in saving' /\ backup'.state = "ok" => Succeeds(backup'.reg, mem'[Bot])
      BY <2>s, <2>t, <3>1
    <3>3. file'.state # "absent" /\ NamesApart(file'.reg) /\ NamesUpTo(file'.reg, adds')
      BY <2>s, <2>t, <2>e
    <3> QED
      BY <2>t, <3>1, <3>2, <3>3 DEF SaveInv
  \* A save that is not begun, whatever becomes of the backup.
  <2>u. ASSUME SaveNotBegun, Bot \notin saving, NamesApart(mem'[Bot]), NamesUpTo(mem'[Bot], adds'),
               adds <= adds', adds' \in Nat
        PROVE  SaveInv'
    <3>1. file' = file /\ saving' = saving /\ (file.state = "absent" => backup' = backup)
      BY <2>u DEF SaveNotBegun
    <3>2. NamesUpTo(file.reg, adds')
      BY <2>m, <2>n, <2>u, SameNames
    <3> QED
      BY <2>n, <2>u, <3>1, <3>2 DEF SaveInv
  <2>a. ASSUME NEW new \in Registry, KeepsHistory(mem[Bot], new),
               Bot \in loaded, Bot \notin saving
        PROVE  file.state = "ok" => Succeeds(file.reg, new)
    BY <2>a, <2>m, LaterStill, LaterSucceeds DEF BookInv
  <2>1. ASSUME LoadFile(Bot) PROVE SaveInv'
    <3>1. CASE file.state = "ok"
      <4> DEFINE read == Parsed(file.reg)
      <4>1. /\ \A t \in Types : Len(read[t]) = Len(file.reg[t])
            /\ \A t \in Types : \A i \in 1..Len(file.reg[t]) :
                  read[t][i] = Reread(file.reg[t][i])
        BY <2>m, ParsedEntry
      <4>2. \A t \in Types : \A i \in 1..Len(file.reg[t]) :
               Reread(file.reg[t][i]).id = file.reg[t][i].id
        BY <2>m DEF Reread, Registry, Position
      <4>3. mem' = [mem EXCEPT ![Bot] = read] /\ UNCHANGED <<file, backup, saving, adds>>
        BY <2>1, <3>1 DEF LoadFile
      <4> HIDE DEF read
      <4>4. adds <= adds
        BY <2>m
      <4>k. \A t \in Types : /\ Len(read[t]) = Len(file.reg[t])
                             /\ \A i \in 1..Len(file.reg[t]) : read[t][i].id = file.reg[t][i].id
        BY <4>1, <4>2
      <4>5. NamesApart(read) /\ NamesUpTo(read, adds)
        BY <2>m, <2>n, <4>4, <4>k, SameNames
      <4>6. Bot \notin saving /\ mem'[Bot] = read
        BY <2>1, <4>3 DEF LoadFile, TypeOK
      <4> QED
        BY <2>n, <4>3, <4>5, <4>6 DEF SaveInv
    <3>2. CASE file.state # "ok"
      <4>1. StartSave(Bot) /\ mem' = [mem EXCEPT ![Bot] = Empty]
        BY <2>1, <3>2 DEF LoadFile
      <4> QED
        BY <2>e, <2>t, <3>2, <4>1, EmptyType
    <3> QED
      BY <3>1, <3>2
  <2>2. ASSUME NEW t \in Types, NEW lo \in Bins, NEW hi \in Bins,
               NEW amounts \in Minted, AddPosition(Bot, t, lo, hi, amounts)
        PROVE  SaveInv'
    <3> DEFINE new == Added(mem[Bot], t, adds', lo, hi, amounts)
    <3>1. /\ amounts \in Amounts /\ adds' = adds + 1 /\ adds' \in Nat
          /\ Bot \in loaded /\ Bot \notin saving
      BY <2>m, <2>2, MintedAssumption DEF AddPosition, Amounts, Idle
    <3>2. new \in Registry /\ KeepsHistory(mem[Bot], new)
      BY <2>m, <3>1, AddedType, AddedKeepsHistory
    <3>3. NamesApart(new) /\ NamesUpTo(new, adds')
      BY <2>m, <2>n, <3>1, AddedNames
    <3>4. mem' = [mem EXCEPT ![Bot] = new]
      BY <2>2 DEF AddPosition
    <3> HIDE DEF new
    <3>5. CASE StartSave(Bot)
      BY <2>a, <2>t, <3>1, <3>2, <3>3, <3>4, <3>5
    <3>6. CASE SaveFailsEarly(Bot)
      <4>1. mem'[Bot] = new /\ SaveNotBegun /\ adds <= adds'
        BY <2>m, <3>1, <3>4, <3>6 DEF TypeOK, SaveFailsEarly
      <4> QED
        BY <2>u, <3>1, <3>3, <4>1
    <3> QED
      BY <2>2, <3>5, <3>6 DEF AddPosition
  <2>3. ASSUME NEW bins, Deregister(Bot, bins) \/ DropStale(Bot, bins) PROVE SaveInv'
    BY <2>3 DEF Deregister, DropStale, SaveInv
  <2>4. ASSUME NEW ti \in todo[Bot], RemovePosition(Bot, ti[1], ti[2]) PROVE SaveInv'
    <3> DEFINE new == Exited(mem[Bot], ti[1], ti[2])
    <3>1. ti[1] \in Types /\ ti[2] \in Nat
      BY DEF TypeOK
    <3>2. /\ Bot \in loaded /\ Bot \notin saving /\ adds' = adds
          /\ mem' = [mem EXCEPT ![Bot] = new] /\ (StartSave(Bot) \/ SaveFailsEarly(Bot))
      BY <2>4 DEF RemovePosition
    <3>3. new \in Registry /\ KeepsHistory(mem[Bot], new)
      BY <2>m, <3>1, ExitedType, ExitedKeepsHistory
    <3>4. \A t \in Types : Len(new[t]) = Len(mem[Bot][t])
      BY <2>m, <3>1, ExitedEntry
    <3> HIDE DEF new
    <3>5. \A t \in Types : \A i \in 1..Len(mem[Bot][t]) : new[t][i].id = mem[Bot][t][i].id
      BY <3>3 DEF KeepsHistory
    <3>6. adds <= adds
      BY <2>m
    <3>7. NamesApart(new) /\ NamesUpTo(new, adds)
      BY <2>m, <2>n, <3>4, <3>5, <3>6, SameNames
    <3>8. CASE StartSave(Bot)
      BY <2>a, <2>t, <3>2, <3>3, <3>7, <3>8
    <3>9. CASE SaveFailsEarly(Bot)
      <4>1. mem'[Bot] = new /\ SaveNotBegun
        BY <3>2, <3>9 DEF TypeOK, SaveFailsEarly
      <4> QED
        BY <2>m, <2>u, <3>2, <3>6, <3>7, <4>1
    <3> QED
      BY <3>2, <3>8, <3>9
  <2>5. ASSUME FinishSave(Bot) PROVE SaveInv'
    <3>1. /\ file' = Written(mem[Bot]) /\ UNCHANGED <<backup, mem, adds>>
          /\ saving' = saving \ {Bot}
      BY <2>5 DEF FinishSave, BookInv
    <3>2. file'.state = "ok" /\ file'.reg = mem[Bot]
      BY <3>1 DEF Written
    <3> QED
      BY <2>n, <3>1, <3>2 DEF SaveInv
  <2>6. ASSUME FailSave(Bot) PROVE SaveInv'
    BY <2>6 DEF FailSave, SaveInv
  <2>7. ASSUME Stop(Bot) PROVE SaveInv'
    BY <2>7, <2>e DEF Stop, TypeOK, SaveInv
  <2>8. ASSUME LoadFails(Bot) PROVE SaveInv'
    <3>1. SaveNotBegun /\ mem' = mem /\ adds' = adds /\ adds <= adds /\ Bot \notin saving
      BY <2>8, <2>m DEF LoadFails, TypeOK
    <3> QED
      BY <2>m, <2>n, <2>u, <3>1
  <2>9. CASE UNCHANGED vars
    BY <2>9 DEF vars, SaveInv
  <2> QED
    BY <2>1, <2>2, <2>3, <2>4, <2>5, <2>6, <2>7, <2>8, <2>9 DEF Next
<1> QED
  BY <1>1, <1>2, TypeCorrect, OneActive, BookInvariant, PTL DEF Spec

(* The save of the only process never brings back to life a position that   *)
(* the file it replaces already had as exited: what is written follows what *)
(* was found, and no later entry has the name of an earlier one.            *)
THEOREM ExitedNeverReturns ==
    ASSUME OneProcess
    PROVE  Spec => ExitedStaysExited
<1> DEFINE Step == file.state = "torn" /\ file'.state = "ok" /\ backup.state = "ok" =>
                      \A t \in Types : \A i \in 1..Len(backup.reg[t]) :
                          LET was == backup.reg[t][i]
                          IN  ~was.active =>
                                 ~\E j \in 1..Len(file'.reg[t]) :
                                     file'.reg[t][j].id = was.id /\ file'.reg[t][j].active
<1>1. TypeOK /\ BookInv /\ SaveInv /\ [Next]_vars => Step
  <2> SUFFICES ASSUME TypeOK, BookInv, SaveInv, [Next]_vars,
                      file.state = "torn", file'.state = "ok", backup.state = "ok",
                      NEW t \in Types, NEW i \in 1..Len(backup.reg[t]),
                      ~backup.reg[t][i].active,
                      NEW j \in 1..Len(file'.reg[t]),
                      file'.reg[t][j].id = backup.reg[t][i].id, file'.reg[t][j].active
               PROVE  FALSE
    OBVIOUS
  <2>1. FinishSave(Bot)
    <3>1. \A p \in Procs : p = Bot
      BY DEF OneProcess
    <3>2. ~StartSave(Bot) /\ ~SaveNotBegun /\ ~SaveFailsEarly(Bot)
      BY DEF StartSave, Unreadable, SaveNotBegun, SaveFailsEarly
    <3>3. file' # file
      OBVIOUS
    <3> QED
      BY <3>1, <3>2, <3>3 DEF Next, vars, LoadFile, AddPosition, Deregister, DropStale,
                              RemovePosition, FailSave, Stop, LoadFails
  <2>2. Bot \in saving /\ file'.reg = mem[Bot]
    BY <2>1 DEF FinishSave, Written
  <2>3. Succeeds(backup.reg, mem[Bot]) /\ NamesApart(mem[Bot])
    BY <2>2 DEF SaveInv
  <2>4. i \in 1..Len(mem[Bot][t]) /\ mem[Bot][t][i].id = backup.reg[t][i].id
        /\ ~mem[Bot][t][i].active
    <3>1. mem[Bot] \in Registry /\ backup.reg \in Registry
      BY DEF OneProcess, TypeOK, File
    <3>2. Len(mem[Bot][t]) \in Nat /\ Len(backup.reg[t]) \in Nat
      BY <3>1 DEF Registry
    <3> QED
      BY <2>3, <3>2 DEF Succeeds
  <2>5. i = j
    BY <2>2, <2>3, <2>4 DEF NamesApart
  <2> QED
    BY <2>2, <2>4, <2>5
<1>2. TypeOK /\ BookInv /\ SaveInv /\ [Next]_vars => [Step]_vars
  BY <1>1
<1> QED
  BY <1>2, TypeCorrect, BookInvariant, SaveInvariant, PTL DEF Spec, ExitedStaysExited
=============================================================================
