--------------------------- MODULE MCMarketOrders ---------------------------
(* Two administrators, two creations and two changes of their orders;     *)
(* one product, which two orders can sell out.                             *)
EXTENDS MarketOrders, TLC

CONSTANTS u, a, p1, h1, h2, h3, h4

MCBaskets == {p1 :> 1, p1 :> 2}
MCStock == p1 :> 2
Symmetric == Permutations({h1, h2}) \union Permutations({h3, h4}) \union Permutations({u, a})
=============================================================================
