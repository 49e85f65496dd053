--------------------------- MODULE AddOfPosition ---------------------------
(***************************************************************************)
(* create_position is the add that PositionLifecycle takes it for: sent    *)
(* around the active bin as last read, put by the router around the one it *)
(* finds, in bins of its range only, not all of which need get something.  *)
(* What is proved of the life of a position rests on that.                 *)
(***************************************************************************)
EXTENDS BinDiscovery, AddLiquidity

CONSTANTS TopBin, Half, Chunk, MaxAdds  \* of the life of a position

\* The ranges of the entries lie within the pool of the other model.
ASSUME FitAssumption ==
  /\ {TopBin, Half} \subseteq Nat /\ MaxAdds \in Nat \ {0} /\ ActiveBins \subseteq 0..TopBin
  /\ \A a \in Asks : \A d \in Range1(a.count, a.upside) :
        /\ -Half <= d /\ d <= Half
        /\ \A b \in ActiveBins : 0 <= b + d /\ b + d <= TopBin

Kind == "narrow"  \* any strategy type

OnTheWay == [type |-> Kind, at |-> planned.active,
             lo |-> planned.active + Min(Bins1), hi |-> planned.active + Max(Bins1)]

Life == INSTANCE PositionLifecycle WITH
          Types   <- {Kind},
          real    <- held,
          dust    <- residue,
          reg     <- [t \in {Kind} |-> {}],
          recent  <- {},
          pc      <- CASE stage = "sent" -> "sent" [] stage = "placed" -> "mined" [] OTHER -> "idle",
          add     <- IF stage \in {"sent", "placed"} THEN OnTheWay
                     ELSE [type |-> "none", at |-> 0, lo |-> 0, hi |-> 0],
          limbo   <- {},
          late    <- {},
          plan    <- {},
          todo    <- {},
          grown   <- {},
          taken   <- {},
          MaxLate <- 0,
          adds    <- IF stage \in {"sent", "placed", "reverted"} THEN 1 ELSE 0,
          excused <- IF stage = "placed" /\ (active # planned.active \/ held = {}) THEN {Kind} ELSE {}

(* Every step of create_position and of the router is one of the life of a  *)
(* position, or none: up to the send nothing is seen of it, it is sent      *)
(* around the active bin as it is then, and what it puts into the bins lies *)
(* in its range, moved with the active bin by no more than IdSlippage.      *)
ImplementsLife == Life!Spec
=============================================================================
