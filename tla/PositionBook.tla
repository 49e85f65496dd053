---------------------------- MODULE PositionBook ----------------------------
(***************************************************************************)
(* What the position registry promises, with no file, no process and no    *)
(* list of past positions: for each strategy type at most one open range   *)
(* of bins, named by the add that opened it.  An open range only grows and *)
(* a closed one never comes back, but for a restart, which goes back to    *)
(* the stored copy: the book as it was when it was last stored, or nothing *)
(* if an operation has lost it since.                                      *)
(***************************************************************************)
EXTENDS Integers

CONSTANTS Types,  \* the strategy types, "narrow" and "wide"
          Bins    \* the bin ids of the pool

VARIABLES book,   \* the open range of each type, or Closed
          stored, \* the book a restart finds
          calls   \* how many adds the book has been told of

vars == <<book, stored, calls>>

Closed == [id |-> 0, lo |-> 0, hi |-> 0]
Nothing == [t \in Types |-> Closed]

Lesser(a, b)  == IF a < b THEN a ELSE b
Greater(a, b) == IF a > b THEN a ELSE b

Init == book = Nothing /\ stored = Nothing /\ calls = 0

(* An operation leaves the stored copy alone or loses it.                   *)
Unstored == stored' \in {stored, Nothing}

(* An add to a type with no open range opens one, under a name never used. *)
Open(t, lo, hi) ==
    /\ calls' = calls + 1
    /\ book[t] = Closed
    /\ book' = [book EXCEPT ![t] = [id |-> calls', lo |-> lo, hi |-> hi]]
    /\ Unstored

(* An add to a type with an open range widens that range to cover both. *)
Widen(t, lo, hi) ==
    /\ calls' = calls + 1
    /\ book[t] # Closed
    /\ book' = [book EXCEPT ![t].lo = Lesser(@, lo), ![t].hi = Greater(@, hi)]
    /\ Unstored

Close(t) ==
    /\ UNCHANGED calls
    /\ book[t] # Closed
    /\ book' = [book EXCEPT ![t] = Closed]
    /\ Unstored

Store   == UNCHANGED <<calls, book>> /\ stored' = book
Restart == UNCHANGED <<calls, stored>> /\ book' = stored

Next ==
    \/ \E t \in Types, lo, hi \in Bins :
           lo <= hi /\ (Open(t, lo, hi) \/ Widen(t, lo, hi))
    \/ \E t \in Types : Close(t)
    \/ Store
    \/ Restart

Spec == Init /\ [][Next]_vars
=============================================================================
