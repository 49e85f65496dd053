---------------------------- MODULE RegistryBook ----------------------------
(***************************************************************************)
(* The registry of a single process implements PositionBook.  The book is  *)
(* what the process has in memory or, when none runs, what the next one    *)
(* will read from the file; the file itself is the stored book.            *)
(***************************************************************************)
EXTENDS LPRegistry

CONSTANT Bot

(* What all of this is about: no other process has the file. *)
OneProcess == Procs = {Bot}

OpenRange(list) ==
    IF ActiveAt(list) = {}
    THEN [id |-> 0, lo |-> 0, hi |-> 0]
    ELSE LET pos == list[FirstActive(list)]
         IN  [id |-> pos.id, lo |-> pos.lo, hi |-> pos.hi]

Current == IF Bot \in loaded THEN mem[Bot] ELSE file.reg

Ranges(reg) == [t \in Types |-> OpenRange(reg[t])]

Book == INSTANCE PositionBook WITH
            book   <- Ranges(Current),
            stored <- Ranges(file.reg),
            calls  <- adds

(* Through saves, failed saves, stops at any point, torn files and reloads, *)
(* the registry opens, widens and closes one range per type; a restart goes *)
(* back to the ranges of the last save that ended, or to none at all.       *)
ImplementsBook == Book!Spec
=============================================================================
