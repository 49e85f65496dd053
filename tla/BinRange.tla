------------------------------ MODULE BinRange ------------------------------
(* The bins of an entry as distances from the active bin.                   *)
EXTENDS Integers

Larger(a, b) == IF a >= b THEN a ELSE b
Smaller(a, b) == IF a <= b THEN a ELSE b
Clamp(low, high, n) == Larger(low, Smaller(high, n))

\* _lp_range_delta_ids, upside in percent: the bins above the active one, and all.
RightBins(count, upside) == (count * Clamp(10, 90, upside)) \div 100
Range1(count, upside) == (RightBins(count, upside) + 1 - count)..RightBins(count, upside)
=============================================================================
