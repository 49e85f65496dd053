------------------------------- MODULE MCBins -------------------------------
(* Adds over small ranges while the active bin moves; and, as an assumption *)
(* that is evaluated, the search over every set of held bins among nine:    *)
(* holes shorter, as long and longer than a chunk.                          *)
EXTENDS AddOfPosition

MCWidths == <<1, 3>>
MCPrice(b) == b + 4
Nine == 0..8
MCAsks == {[x |-> a[1], y |-> a[2], count |-> count, upside |-> upside, shape |-> shape] :
             a \in {0, 20, 600} \X {0, 40, 600} \ {<<0, 0>>},
             count \in {2, 3, 5}, upside \in {0, 50, 90},
             shape \in {"uniform", "ascending", "peak", "valley", "bell"}}

ASSUME SearchOfSmallSets ==
  \A bins \in SUBSET Nine, c \in Nine :
    FoundWhole(bins, c) /\ FoundIsConnected(bins, c)
=============================================================================
