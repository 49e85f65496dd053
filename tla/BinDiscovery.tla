---------------------------- MODULE BinDiscovery ----------------------------
(***************************************************************************)
(* How the bot finds its own liquidity (LPService).  A position is nothing *)
(* but LB token balances in bins; there is no list of them, so the service *)
(* asks for the balances of ranges of bin ids.  held is the set of bins    *)
(* with a balance, dust included, and c the active bin.                    *)
(***************************************************************************)
EXTENDS Integers, Sequences, FiniteSetsExt

CONSTANTS Widths,       \* half widths of the windows: 20, 50, 100, 200
          SearchChunk,  \* ACTIVE_BIN_SEARCH_CHUNK: 100
          ProbeRange    \* half width of the startup probe: 200

ASSUME WidthsAssumption ==
    /\ Widths \in Seq(Nat \ {0}) /\ Widths # <<>>
    /\ \A i, j \in 1..Len(Widths) : i < j => Widths[i] < Widths[j]
ASSUME SearchAssumption == SearchChunk \in Nat \ {0} /\ ProbeRange \in Nat

From(c, w) == IF c > w THEN c - w ELSE 0
Window(c, w) == From(c, w)..(c + w)

(* A search that trusts a window one of whose ends is held: for the check   *)
(* of the properties.                                                       *)
OneEndEnough(held, c, w) ==
    /\ held \cap Window(c, w) # {}
    /\ ~ {From(c, w), c + w} \subseteq held

(* The window has some of the position, and neither of its ends is held.    *)
Settles(held, c, w) ==
    /\ held \cap Window(c, w) # {}
    /\ From(c, w) \notin held
    /\ c + w \notin held

(* A search that ends where the widest window does: for the check of the    *)
(* properties.                                                              *)
LowestOfWindow(held, m) == m

(* The search goes on from bin m, SearchChunk bins at a time, as long as    *)
(* some of them are held.                                                   *)
LowestFrom(held, m) ==
    LET down[x \in 0..m] ==
            LET next == held \cap (x - SearchChunk)..(x - 1)
            IN  IF next = {} THEN x ELSE down[Min(next)]
    IN  down[m]

HighestFrom(held, m) ==
    LET up[x \in m..Max(held)] ==
            LET next == held \cap (x + 1)..(x + SearchChunk)
            IN  IF next = {} THEN x ELSE up[Max(next)]
    IN  up[m]

(* _discover_bins_near_active, then the bins of the result with a balance:  *)
(* the first window that settles the question, or else the widest, widened  *)
(* as far as the search goes.                                               *)
Discovered(held, c) ==
    LET settled == {i \in 1..Len(Widths) : Settles(held, c, Widths[i])}
        seeds   == held \cap Window(c, Widths[Len(Widths)])
    IN  IF settled # {} THEN held \cap Window(c, Widths[Min(settled)])
        ELSE IF seeds = {} THEN {}
        ELSE held \cap LowestFrom(held, Min(seeds))..HighestFrom(held, Max(seeds))

(* discover_onchain_bins *)
Probed(held, c) == held \cap (c - ProbeRange)..(c + ProbeRange)

-----------------------------------------------------------------------------
Contiguous(held) == held = {} \/ held = Min(held)..Max(held)

(* A position with no hole in it, any part of which is within the widest    *)
(* window of the active bin, is found whole, whichever window answers.      *)
FoundWhole(held, c) ==
    /\ Contiguous(held)
    /\ held \cap Window(c, Widths[Len(Widths)]) # {}
    => Discovered(held, c) = held

(* With or without holes, what is found has no hole of SearchChunk bins or  *)
(* more that lies outside of the window it started from, and goes on beyond *)
(* its ends by a hole that long, unless a window settled it.                *)
FoundIsConnected(held, c) ==
    LET w == Widths[Len(Widths)]
        found == Discovered(held, c)
    IN  (\A i \in 1..Len(Widths) : ~Settles(held, c, Widths[i])) /\ found # {} =>
            /\ held \cap Window(c, w) \subseteq found
            /\ held \cap (Min(found) - SearchChunk)..(Max(found) + SearchChunk) = found
            /\ \A x, y \in found : x < y /\ y - x > SearchChunk =>
                   (x + 1)..(y - 1) \cap (found \cup Window(c, w)) # {}
=============================================================================
