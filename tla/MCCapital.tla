---------------------------- MODULE MCCapital ----------------------------
(***************************************************************************)
(* Capital on small wallets with the settings' own thresholds in dollars   *)
(* and prices of one and two dollars; the cap of a swap and the cap of the *)
(* native value are scaled down to the wallets.                            *)
(***************************************************************************)
EXTENDS Capital

MCWallets == {[native |-> n, wmnt |-> w, usdt |-> u] :
                n \in {1, 60}, w \in {0, 13}, u \in {0, 25, 90}}
MCPrices == {1, 2}
MCMode == [down |-> "partial_rebalance", up |-> "partial_rebalance", neutral |-> "continuation_safe"]
MCBase == [down |-> 3000, up |-> 7000, neutral |-> 5000]
MCGate == [maxWeight |-> 8500, minUsdt |-> 10, target |-> 7000, tolerance |-> 500,
           minTrade |-> 10, maxSwap |-> 3500, viable |-> 5]
MCExtras == {0, 6}
MCScales == {"overbought", "oversold"}
=============================================================================
