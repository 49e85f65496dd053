----------------------------- MODULE MCLifecycle -----------------------------
(* Three bins, the last of them out of the window from the first: a removal
   takes two chunks, the search settles or widens.  The run of the start has
   a bin and a window more.  The two types are treated alike. *)
EXTENDS PositionLifecycle, TLC

CONSTANTS narrow, wide

MCTypes  == {narrow, wide}
MCWindow == <<1>>
MCWidths == <<1, 2>>
Symmetry == Permutations(MCTypes)
=============================================================================
